---- MODULE Spec2Model ----
(***************************************************************************)
(* Verification model of geoprop: the NASADEM tile (nasadem/src/lib.rs)    *)
(* and the on-demand tile store (terrain/src/tiles.rs).                    *)
(*                                                                         *)
(* Geographic coordinates are f64 degrees in the program.  Here they are   *)
(* exact fixed-point numbers: an integer count of units, UnitsPerDeg units *)
(* to the degree (a quarter of an arcsecond each), so that floor, the      *)
(* half-sample compensation and the float-to-integer cast are computed     *)
(* exactly.  The grid is scaled down: a degree holds ARCSEC_PER_DEG =      *)
(* 3 * Scale arcseconds instead of 3600 = 3 * 1200, and the two tile sizes *)
(* keep their relation to it (3601 = 3600/1 + 1, 1201 = 3600/3 + 1).       *)
(***************************************************************************)
EXTENDS Integers, Sequences, FiniteSets, TLC

VARIABLES
    disk,       \* tile directory: file name -> file, or NoFile
    tile_mode,  \* Tiles.tile_mode
    tiles,      \* Tiles.tiles: DashMap<Coord<i16>, Arc<Tile>>
    lock,       \* DashMap shard write locks: shard -> holding thread, or Free
    shardOf,    \* DashMap hash (RandomState): SW corner -> shard
    pc,         \* per thread: position inside Tiles::get
    arg,        \* per thread: the coordinate passed to Tiles::get
    path,       \* per thread: tile_path chosen by load_tile
    result,     \* per thread: value returned by Tiles::get
    budget,     \* remaining Tiles::get calls and remaining directory changes
    tile,       \* the Tile under test of the single-tile specification
    call        \* the last operation applied: its name, input and output

storeVars == <<disk, tile_mode, tiles, lock, shardOf, pc, arg, path, result, budget>>
vars == <<disk, tile_mode, tiles, lock, shardOf, pc, arg, path, result, budget, tile, call>>

(***************************************************************************)
(* Bounds of the model.                                                    *)
(***************************************************************************)
\* A degree holds 3 * Scale arcseconds (1200 in the program).
Scale == 2
\* Number of threads calling Tiles::get.
NumThreads == 2
\* Tiles::get calls the threads make in all.
MaxCalls == 3
\* Changes the environment makes to the tile directory during a run.
MaxDiskChanges == 1
\* Shards of the DashMap.
NumShards == 2

(***************************************************************************)
(* Integers of the program.                                                *)
(***************************************************************************)
I16_MAX == 32767
I16_MIN == -32768

ARCSEC_PER_DEG == 3 * Scale
UnitsPerDeg == 4 * ARCSEC_PER_DEG

\* A float-to-integer `as` cast truncates toward zero.
TruncDiv(a, b) == IF a >= 0 THEN a \div b ELSE -((-a) \div b)

\* A float-to-i16 `as` cast saturates.
SaturateI16(n) == IF n > I16_MAX THEN I16_MAX ELSE IF n < I16_MIN THEN I16_MIN ELSE n

Abs(n) == IF n < 0 THEN -n ELSE n

RECURSIVE SeqMax(_)
SeqMax(s) == IF Len(s) = 1 THEN s[1]
             ELSE LET m == SeqMax(Tail(s)) IN IF s[1] >= m THEN s[1] ELSE m

(***************************************************************************)
(* Strings are sequences of one-character strings.                         *)
(***************************************************************************)
DigitChars == <<"0", "1", "2", "3", "4", "5", "6", "7", "8", "9">>

DigitValue(ch) == CHOOSE d \in 0..9 : DigitChars[d + 1] = ch

IsDigit(ch) == \E d \in 0..9 : DigitChars[d + 1] = ch

RECURSIVE DecDigits(_)
DecDigits(n) == IF n < 10 THEN <<DigitChars[n + 1]>>
                ELSE DecDigits(n \div 10) \o <<DigitChars[(n % 10) + 1]>>

RECURSIVE ZeroPad(_, _)
ZeroPad(s, width) == IF Len(s) >= width THEN s ELSE ZeroPad(<<"0">> \o s, width)

\* format!("{n:0w}") of a non-negative integer.
FormatPadded(n, width) == ZeroPad(DecDigits(n), width)

\* str::to_lowercase on the characters a tile file name can hold.
LowerChar(ch) == CASE ch = "N" -> "n" [] ch = "S" -> "s" [] ch = "E" -> "e"
                   [] ch = "W" -> "w" [] ch = "H" -> "h" [] ch = "G" -> "g"
                   [] ch = "T" -> "t" [] OTHER -> ch

to_lowercase(s) == [i \in 1..Len(s) |-> LowerChar(s[i])]

RECURSIVE DigitsValue(_)
DigitsValue(s) == IF Len(s) = 0 THEN 0
                  ELSE 10 * DigitsValue(SubSeq(s, 1, Len(s) - 1)) + DigitValue(s[Len(s)])

\* str::parse::<i16>: an optional sign, then one or more decimal digits,
\* the value within the i16 range.
ParseI16(s) ==
    LET signed == Len(s) > 0 /\ s[1] \in {"+", "-"}
        digits == IF signed THEN Tail(s) ELSE s
        value == IF signed /\ s[1] = "-" THEN -DigitsValue(digits) ELSE DigitsValue(digits)
    IN  IF Len(digits) = 0 \/ \E i \in 1..Len(digits) : ~IsDigit(digits[i])
        THEN [ok |-> FALSE]
        ELSE IF value > I16_MAX \/ value < I16_MIN
             THEN [ok |-> FALSE]
             ELSE [ok |-> TRUE, val |-> value]

\* Path::file_stem: the file name up to its last dot (the whole name when the
\* only dot leads it or there is none).
LastDot(s) == LET dots == {i \in 1..Len(s) : s[i] = "."}
              IN  IF dots = {} THEN 0 ELSE CHOOSE i \in dots : \A j \in dots : j <= i

file_stem(name) == IF LastDot(name) <= 1 THEN name ELSE SubSeq(name, 1, LastDot(name) - 1)

(***************************************************************************)
(* terrain/src/tiles.rs: SW corner and file name.                          *)
(***************************************************************************)
\* A coordinate is [x |-> longitude, y |-> latitude] in units.
sw_corner(coord) ==
    [x |-> SaturateI16(coord.x \div UnitsPerDeg), y |-> SaturateI16(coord.y \div UnitsPerDeg)]

file_name_flipped(sw) ==
    <<IF sw.y > 0 THEN "N" ELSE "S">> \o FormatPadded(Abs(sw.y), 2)
        \o <<IF sw.x > 0 THEN "E" ELSE "W">> \o FormatPadded(Abs(sw.x), 3)
        \o <<".", "h", "g", "t">>

file_name(sw) ==
    <<IF sw.y < 0 THEN "S" ELSE "N">> \o FormatPadded(Abs(sw.y), 2)
        \o <<IF sw.x < 0 THEN "W" ELSE "E">> \o FormatPadded(Abs(sw.x), 3)
        \o <<".", "h", "g", "t">>

(***************************************************************************)
(* nasadem/src/lib.rs: parsing the SW corner from a file name.             *)
(***************************************************************************)
HgtName(p) == [ok |-> FALSE, err |-> "HgtName", path |-> p]

parse_sw_corner(p) ==
    LET name == file_stem(p)
    IN  IF Len(name) # 7 THEN HgtName(p)
        ELSE IF name[1] \notin {"N", "S"} THEN HgtName(p)
        ELSE IF ~ParseI16(SubSeq(name, 2, 3)).ok THEN HgtName(p)
        ELSE IF name[4] \notin {"E", "W"} THEN HgtName(p)
        ELSE IF ~ParseI16(SubSeq(name, 5, 7)).ok THEN HgtName(p)
        ELSE LET lat_sign == IF name[1] = "N" THEN 1 ELSE -1
                 lon_sign == IF name[4] = "E" THEN 1 ELSE -1
             IN  [ok |-> TRUE,
                  val |-> [x |-> lon_sign * ParseI16(SubSeq(name, 5, 7)).val,
                           y |-> lat_sign * ParseI16(SubSeq(name, 2, 3)).val]]

(***************************************************************************)
(* nasadem/src/lib.rs: Tile.                                               *)
(***************************************************************************)
None == [some |-> FALSE]
Some(v) == [some |-> TRUE, val |-> v]

Ok(v) == [ok |-> TRUE, val |-> v]
IoError(kind) == [ok |-> FALSE, err |-> "Io", kind |-> kind]
HgtLen(len) == [ok |-> FALSE, err |-> "HgtLen", len |-> len]

\* A file of the tile directory: absent, or its bytes and whether open()
\* is permitted.
NoFile == [exists |-> FALSE]
File(bytes, readable) == [exists |-> TRUE, bytes |-> bytes, readable |-> readable]

\* Side length of a 1-arcsecond and of a 3-arcsecond tile (3601 and 1201).
Dim1 == ARCSEC_PER_DEG + 1
Dim3 == (ARCSEC_PER_DEG \div 3) + 1

SIZE_OF_U16 == 2
RES_1_ARCSECONDS_FIBE_BEN == Dim1 * Dim1 * SIZE_OF_U16
RES_3_ARCSECONDS_FIBE_BEN == Dim3 * Dim3 * SIZE_OF_U16

\* Path::metadata().len(), matched against the two valid lengths.
extract_resolution(f) ==
    IF ~f.exists THEN IoError("NotFound")
    ELSE IF Len(f.bytes) = RES_1_ARCSECONDS_FIBE_BEN THEN Ok([res |-> 1, dims |-> <<Dim1, Dim1>>])
    ELSE IF Len(f.bytes) = RES_3_ARCSECONDS_FIBE_BEN THEN Ok([res |-> 3, dims |-> <<Dim3, Dim3>>])
    ELSE HgtLen(Len(f.bytes))

\* ReadBytesExt::read_i16::<BigEndian> of the two bytes at byte offset start
\* (0-based).
read_i16_BE(bytes, start) ==
    LET u == bytes[start + 1] * 256 + bytes[start + 2]
    IN  IF u >= 32768 THEN u - 65536 ELSE u

\* File::open.
open(f) == IF ~f.exists THEN IoError("NotFound")
           ELSE IF ~f.readable THEN IoError("PermissionDenied")
           ELSE Ok(f.bytes)

\* ne_corner_center, in units: sw + (dimension * resolution) / ARCSEC_PER_DEG
\* degrees (load takes dimensions.0 for y, dimensions.1 for x).
NeCorner(sw, ydim, xdim, res) ==
    [x |-> sw.x * UnitsPerDeg + (xdim * res * UnitsPerDeg) \div ARCSEC_PER_DEG,
     y |-> sw.y * UnitsPerDeg + (ydim * res * UnitsPerDeg) \div ARCSEC_PER_DEG]

MkTile(sw, ne, res, dims, samples) ==
    [sw_corner_center |-> sw, ne_corner_center |-> ne, resolution |-> res,
     dimensions |-> dims, min_elevation |-> I16_MAX, max_elevation |-> I16_MAX,
     samples |-> samples]

\* Tile::load: the file at path p, f being what the directory holds there.
Tile_load(p, f) ==
    LET er == extract_resolution(f)
        sw == parse_sw_corner(p)
        file == open(f)
    IN  IF ~er.ok THEN er
        ELSE IF ~sw.ok THEN sw
        ELSE IF ~file.ok THEN file
        ELSE LET cols == er.val.dims[1]
                 rows == er.val.dims[2]
                 sample_store == [i \in 1..(cols * rows) |->
                                     read_i16_BE(file.val, (i - 1) * SIZE_OF_U16)]
             IN  Ok(MkTile(sw.val,
                           NeCorner(sw.val, er.val.dims[1], er.val.dims[2], er.val.res),
                           er.val.res, er.val.dims,
                           [store |-> "InMem", data |-> sample_store]))

\* Tile::memmap.
Tile_memmap(p, f) ==
    LET er == extract_resolution(f)
        sw == parse_sw_corner(p)
        file == open(f)
    IN  IF ~er.ok THEN er
        ELSE IF ~sw.ok THEN sw
        ELSE IF ~file.ok THEN file
        ELSE Ok(MkTile(sw.val,
                       NeCorner(sw.val, er.val.dims[1], er.val.dims[2], er.val.res),
                       er.val.res, er.val.dims,
                       [store |-> "MemMap", raw |-> file.val]))

\* Tile::tombstone.
Tile_tombstone(sw) ==
    MkTile(sw, NeCorner(sw, Dim3, Dim3, 3), 3, <<Dim3, Dim3>>, [store |-> "Tombstone"])

\* SampleStore::get_unchecked (index 0-based).
SampleStore_get_unchecked(samples, index) ==
    CASE samples.store = "Tombstone" -> 0
      [] samples.store = "InMem" -> samples.data[index + 1]
      [] samples.store = "MemMap" -> read_i16_BE(samples.raw, index * SIZE_OF_U16)

\* The samples of a memory map, as chunks_exact(2) decodes them.
MappedSamples(raw) ==
    [i \in 1..(Len(raw) \div 2) |-> read_i16_BE(raw, (i - 1) * SIZE_OF_U16)]

\* SampleStore::min: the source takes iter().max() here.
SampleStore_min(samples) ==
    CASE samples.store = "Tombstone" -> 0
      [] samples.store = "InMem" -> SeqMax(samples.data)
      [] samples.store = "MemMap" -> SeqMax(MappedSamples(samples.raw))

\* SampleStore::max.
SampleStore_max(samples) ==
    CASE samples.store = "Tombstone" -> 0
      [] samples.store = "InMem" -> SeqMax(samples.data)
      [] samples.store = "MemMap" -> SeqMax(MappedSamples(samples.raw))

\* Tile::min_elevation: the value returned and the tile with its cache set.
Tile_min_elevation(t) ==
    LET v == IF t.min_elevation = I16_MAX THEN SampleStore_min(t.samples)
             ELSE t.min_elevation
    IN  [ret |-> v, tile |-> [t EXCEPT !.min_elevation = v]]

\* Tile::max_elevation.
Tile_max_elevation(t) ==
    LET v == IF t.max_elevation = I16_MAX THEN SampleStore_max(t.samples)
             ELSE t.max_elevation
    IN  [ret |-> v, tile |-> [t EXCEPT !.max_elevation = v]]

\* One axis of Tile::coord_to_xy: ((coord - sw + cc) * c) as isize, with
\* c = ARCSEC_PER_DEG / resolution and cc = 1 / (2 c), the coordinate in
\* units and the SW corner in degrees.  As an exact fraction:
\*   ((u - sw * UnitsPerDeg) / UnitsPerDeg + resolution / (2 ARCSEC_PER_DEG))
\*       * ARCSEC_PER_DEG / resolution
AxisToIndex(u, sw, res) ==
    TruncDiv(2 * (u - sw * UnitsPerDeg) * ARCSEC_PER_DEG + UnitsPerDeg * res,
             2 * UnitsPerDeg * res)

\* Tile::coord_to_xy.
coord_to_xy(t, coord) ==
    <<AxisToIndex(coord.x, t.sw_corner_center.x, t.resolution),
      AxisToIndex(coord.y, t.sw_corner_center.y, t.resolution)>>

\* Tile::xy_to_linear_index (xy is <<x, y>>, 0-based).
xy_to_linear_index_unflipped(t, xy) == t.dimensions[1] * xy[2] + xy[1]

xy_to_linear_index(t, xy) == t.dimensions[1] * (t.dimensions[2] - xy[2] - 1) + xy[1]

\* Tile::linear_index_to_xy.
linear_index_to_xy(t, idx) ==
    LET y == idx \div t.dimensions[1]
        x == idx % t.dimensions[2]
    IN  <<x, t.dimensions[2] - 1 - y>>

\* Tile::get_xy.
get_xy(t, xy) == SampleStore_get_unchecked(t.samples, xy_to_linear_index(t, xy))

\* Tile::get.
Tile_get(t, coord) ==
    LET idx == coord_to_xy(t, coord)
    IN  IF 0 <= idx[1] /\ idx[1] < t.dimensions[1] /\ 0 <= idx[2] /\ idx[2] < t.dimensions[2]
        THEN Some(SampleStore_get_unchecked(t.samples, xy_to_linear_index(t, idx)))
        ELSE None

\* Tile::len.
Tile_len(t) == t.dimensions[1] * t.dimensions[2]

(***************************************************************************)
(* Inputs: file contents and coordinates.                                  *)
(***************************************************************************)
\* The i16 sample at 0-based position i of the file content numbered seed:
\* flat terrain, terrain with negative and positive samples, and terrain
\* that reaches i16::MAX.
SampleOf(seed, i) ==
    CASE seed = 0 -> 100
      [] seed = 1 -> ((i * 7919 + 4271) % 65536) - 32768
      [] OTHER -> IF i = 3 THEN I16_MAX ELSE 10 * i - 20

Seeds == {0, 1, 2}

\* The two bytes of an i16, most significant first (the HGT format).
BigEndian(v) == LET u == IF v < 0 THEN v + 65536 ELSE v IN <<u \div 256, u % 256>>

RECURSIVE EncodeFrom(_, _, _)
EncodeFrom(seed, i, n) == IF i >= n THEN <<>>
                          ELSE BigEndian(SampleOf(seed, i)) \o EncodeFrom(seed, i + 1, n)

\* An HGT file content of n samples.
FileBytes(seed, n) == EncodeFrom(seed, 0, n)

\* SW corners the single-tile specification loads tiles for.
TileCorners == {[x |-> -72, y |-> 44], [x |-> 0, y |-> -90]}

\* The coordinates the single-tile specification queries reach this many
\* units beyond the degree cell on every side (beyond a 3-arcsecond sample
\* and a half, which is 18 units).
Margin == 20

NoTile == [resolution |-> 0]
Idle == [fn |-> "idle"]

\* A store that is not in use.
StoreUnused ==
    /\ tile_mode = "InMem"
    /\ tiles = <<>>
    /\ lock = <<>>
    /\ shardOf = <<>>
    /\ pc = <<>>
    /\ arg = <<>>
    /\ path = <<>>
    /\ result = <<>>
    /\ budget = <<>>

(***************************************************************************)
(* Single-tile specification: one tile, loaded from one file (or a         *)
(* tombstone), and the Tile operations applied to it.                      *)
(***************************************************************************)
TileInit ==
    /\ StoreUnused
    /\ call = Idle
    /\ \E sw \in TileCorners :
          \/ /\ disk = (file_name(sw) :> NoFile)
             /\ tile = Tile_tombstone(sw)
          \/ \E seed \in Seeds, len \in {RES_1_ARCSECONDS_FIBE_BEN, RES_3_ARCSECONDS_FIBE_BEN} :
               /\ disk = (file_name(sw) :> File(FileBytes(seed, len \div SIZE_OF_U16), TRUE))
               /\ tile \in {Tile_load(file_name(sw), disk[file_name(sw)]).val,
                            Tile_memmap(file_name(sw), disk[file_name(sw)]).val}

\* Coordinates around the tile's degree cell.
AxisRange(sw) == (sw * UnitsPerDeg - Margin)..((sw + 1) * UnitsPerDeg + Margin)

TileGet ==
    /\ call = Idle
    /\ \E x \in AxisRange(tile.sw_corner_center.x), y \in AxisRange(tile.sw_corner_center.y) :
          call' = [fn |-> "get", arg |-> [x |-> x, y |-> y],
                   ret |-> Tile_get(tile, [x |-> x, y |-> y])]
    /\ UNCHANGED <<storeVars, tile>>

TileGetXY ==
    /\ call = Idle
    /\ \E col \in 0..(tile.dimensions[1] - 1), row \in 0..(tile.dimensions[2] - 1) :
          call' = [fn |-> "get_xy", arg |-> <<col, row>>, ret |-> get_xy(tile, <<col, row>>)]
    /\ UNCHANGED <<storeVars, tile>>

TileIndexConversions ==
    /\ call = Idle
    /\ \E col \in 0..(tile.dimensions[1] - 1), row \in 0..(tile.dimensions[2] - 1) :
          call' = [fn |-> "index", arg |-> <<col, row>>,
                   d1 |-> xy_to_linear_index(tile, <<col, row>>),
                   ret |-> linear_index_to_xy(tile, xy_to_linear_index(tile, <<col, row>>))]
    /\ UNCHANGED <<storeVars, tile>>

TileMinElevation ==
    /\ call = Idle
    /\ call' = [fn |-> "min_elevation", ret |-> Tile_min_elevation(tile).ret]
    /\ tile' = Tile_min_elevation(tile).tile
    /\ UNCHANGED storeVars

TileMaxElevation ==
    /\ call = Idle
    /\ call' = [fn |-> "max_elevation", ret |-> Tile_max_elevation(tile).ret]
    /\ tile' = Tile_max_elevation(tile).tile
    /\ UNCHANGED storeVars

TileReturn ==
    /\ call # Idle
    /\ call' = Idle
    /\ UNCHANGED <<storeVars, tile>>

TileNext ==
    \/ TileGet
    \/ TileGetXY
    \/ TileIndexConversions
    \/ TileMinElevation
    \/ TileMaxElevation
    \/ TileReturn

SpecTile == TileInit /\ [][TileNext]_vars

(***************************************************************************)
(* File-name specification: sw_corner, file_name and parse_sw_corner       *)
(* applied to one coordinate.                                              *)
(***************************************************************************)
\* Coordinates with -90 <= lat < 90 and -180 <= lon < 180: every degree
\* cell, at its SW corner and one unit short of the next cell.
NameCoords(lons, lats) ==
    {[x |-> lon * UnitsPerDeg + fx, y |-> lat * UnitsPerDeg + fy] :
        lon \in lons, lat \in lats,
        fx \in {0, UnitsPerDeg - 1}, fy \in {0, UnitsPerDeg - 1}}

NameInit ==
    /\ StoreUnused
    /\ disk = <<>>
    /\ tile = NoTile
    /\ call \in {[fn |-> "coord", arg |-> c] : c \in NameCoords(-180..179, -90..89)}

NameOfCoord ==
    /\ call.fn = "coord"
    /\ call' = [fn |-> "file_name", arg |-> call.arg,
                sw |-> sw_corner(call.arg),
                name |-> file_name(sw_corner(call.arg)),
                parsed |-> parse_sw_corner(file_name(sw_corner(call.arg)))]
    /\ UNCHANGED <<storeVars, tile>>

NameNext == NameOfCoord

SpecName == NameInit /\ [][NameNext]_vars

(***************************************************************************)
(* Claims about a single tile.                                             *)
(***************************************************************************)
\* Units per sample of tile t, and the footprint of t along one axis: from
\* half a sample before the centre of the first sample to half a sample
\* beyond the centre of the last.
SampleUnits(t) == 4 * t.resolution
FootprintLo(t, sw) == sw * UnitsPerDeg - SampleUnits(t) \div 2
FootprintHi(t, sw, dim) == sw * UnitsPerDeg + (dim - 1) * SampleUnits(t) + SampleUnits(t) \div 2

StrictlyOutside(t, c) ==
    \/ c.x < FootprintLo(t, t.sw_corner_center.x)
    \/ c.x > FootprintHi(t, t.sw_corner_center.x, t.dimensions[1])
    \/ c.y < FootprintLo(t, t.sw_corner_center.y)
    \/ c.y > FootprintHi(t, t.sw_corner_center.y, t.dimensions[2])

Inside(t, c) ==
    /\ FootprintLo(t, t.sw_corner_center.x) <= c.x
    /\ c.x < FootprintHi(t, t.sw_corner_center.x, t.dimensions[1])
    /\ FootprintLo(t, t.sw_corner_center.y) <= c.y
    /\ c.y < FootprintHi(t, t.sw_corner_center.y, t.dimensions[2])

\* C6: for every tile and every coordinate outside the tile's footprint on
\* any side, however small the excursion, Tile::get returns None.
C6_OutsideIsNone ==
    (call.fn = "get" /\ StrictlyOutside(tile, call.arg)) => call.ret = None

\* C7: for every tile and every coordinate inside its footprint, Tile::get
\* returns Some(e) with min_elevation() <= e <= max_elevation().
C7_InsideWithinMinMax ==
    (call.fn = "get" /\ Inside(tile, call.arg)) =>
        /\ call.ret.some
        /\ Tile_min_elevation(tile).ret <= call.ret.val
        /\ call.ret.val <= Tile_max_elevation(tile).ret

\* The file the tile under test was loaded from, and the content number of
\* a file.
TileFile == disk[file_name(tile.sw_corner_center)]
IsContent(f, seed) == f.exists /\ f.bytes = FileBytes(seed, Len(f.bytes) \div SIZE_OF_U16)

GridPositions(t) == (0..(t.dimensions[1] - 1)) \X (0..(t.dimensions[2] - 1))

\* C8: for every loaded tile, in-memory or memory-mapped, the sample read at
\* grid position (col, row), row 0 southernmost, is the file's big-endian
\* i16 at linear position (rows - 1 - row) * cols + col, and the conversion
\* between (col, row) and the linear index is a bijection that round-trips.
C8_GridReadsFileOrder ==
    LET cols == tile.dimensions[1]
        rows == tile.dimensions[2]
    IN  /\ (call.fn = "get_xy" /\ tile.samples.store # "Tombstone") =>
              \E seed \in Seeds :
                  /\ IsContent(TileFile, seed)
                  /\ call.ret = SampleOf(seed, (rows - 1 - call.arg[2]) * cols + call.arg[1])
        /\ call.fn = "index" =>
              /\ call.d1 = (rows - 1 - call.arg[2]) * cols + call.arg[1]
              /\ call.d1 \in 0..(cols * rows - 1)
              /\ call.ret = call.arg
              /\ \A xy \in GridPositions(tile) :
                    xy_to_linear_index(tile, xy) = call.d1 => xy = call.arg
              /\ \A idx \in 0..(cols * rows - 1) :
                    /\ linear_index_to_xy(tile, idx) \in GridPositions(tile)
                    /\ xy_to_linear_index(tile, linear_index_to_xy(tile, idx)) = idx

\* A memory-mapped tile read at a grid position of its southernmost row whose
\* sample is negative.
C8_Witness ==
    /\ call.fn = "get_xy"
    /\ tile.samples.store = "MemMap"
    /\ call.arg = <<1, 0>>
    /\ call.ret < 0

(***************************************************************************)
(* Claims about the file name.                                             *)
(***************************************************************************)
\* The integer degree d with d <= u / UnitsPerDeg < d + 1.
\* (Sought among the neighbours of the quotient.)
FloorDeg(u) ==
    CHOOSE d \in ((u \div UnitsPerDeg) - 1)..((u \div UnitsPerDeg) + 1) :
        d * UnitsPerDeg <= u /\ u < (d + 1) * UnitsPerDeg

\* <N|S>dd<E|W>ddd.hgt written out digit by digit.
ExpectedName(lon, lat) ==
    <<IF lat >= 0 THEN "N" ELSE "S",
      DigitChars[(Abs(lat) \div 10) + 1], DigitChars[(Abs(lat) % 10) + 1],
      IF lon >= 0 THEN "E" ELSE "W",
      DigitChars[(Abs(lon) \div 100) + 1], DigitChars[((Abs(lon) \div 10) % 10) + 1],
      DigitChars[(Abs(lon) % 10) + 1],
      ".", "h", "g", "t">>

\* C9: for every coordinate with -90 <= lat < 90 and -180 <= lon < 180 the
\* derived file name is <N|S>dd<E|W>ddd.hgt for (floor(lon), floor(lat)),
\* N/E for values >= 0 and S/W for negative ones, and parse_sw_corner of
\* that name yields exactly (floor(lon), floor(lat)).
C9_NameRoundTrip ==
    (/\ call.fn = "file_name"
     /\ -90 * UnitsPerDeg <= call.arg.y /\ call.arg.y < 90 * UnitsPerDeg
     /\ -180 * UnitsPerDeg <= call.arg.x /\ call.arg.x < 180 * UnitsPerDeg) =>
        /\ call.name = ExpectedName(FloorDeg(call.arg.x), FloorDeg(call.arg.y))
        /\ call.parsed = Ok([x |-> FloorDeg(call.arg.x), y |-> FloorDeg(call.arg.y)])

\* The coordinate one unit south-west of (0, 0) named S01W001.hgt.
C9_Witness ==
    /\ call.fn = "file_name"
    /\ call.arg = [x |-> -1, y |-> -1]
    /\ call.name = <<"S", "0", "1", "W", "0", "0", "1", ".", "h", "g", "t">>
    /\ call.parsed = Ok([x |-> -1, y |-> -1])

(***************************************************************************)
(* terrain/src/tiles.rs: the tile store.                                   *)
(*                                                                         *)
(* DashMap::entry takes the write lock of the key's shard and the entry    *)
(* keeps it: or_try_insert_with runs its closure, the disk load, under     *)
(* that lock, and the lock is released when the returned reference is      *)
(* dropped, after the Arc has been cloned.  Which shard a key hashes to is *)
(* decided by the map's randomly seeded hasher.                            *)
(***************************************************************************)
Threads == 1..NumThreads
Shards == 0..(NumShards - 1)
Free == 0

\* SW corners the store is asked for, and the coordinates passed to get:
\* each cell at its SW corner and one unit short of the next cell.
StoreCorners == {[x |-> -72, y |-> 44], [x |-> 0, y |-> -90]}
StoreCoords ==
    {[x |-> sw.x * UnitsPerDeg + f, y |-> sw.y * UnitsPerDeg + f] :
        sw \in StoreCorners, f \in {0, UnitsPerDeg - 1}}

UpperNames == {file_name(sw) : sw \in StoreCorners}
StoreNames == UpperNames \cup {to_lowercase(n) : n \in UpperNames}

\* What the directory can hold under a name: nothing, a valid 3-arcsecond
\* file, the same file without read permission, a file of invalid length.
ValidFile == File(FileBytes(1, Dim3 * Dim3), TRUE)
DeniedFile == File(FileBytes(1, Dim3 * Dim3), FALSE)
ShortFile == File(<<0, 7>>, TRUE)
\* The N44W072 cell takes every combination; the south-pole cell, an ocean
\* cell, has its upper-case file or none.
FileChoices(name) ==
    IF name = file_name([x |-> -72, y |-> 44]) THEN {NoFile, ValidFile, DeniedFile, ShortFile}
    ELSE IF name = to_lowercase(file_name([x |-> -72, y |-> 44])) THEN {NoFile, ValidFile, ShortFile}
    ELSE IF name \in UpperNames THEN {NoFile, ValidFile}
    ELSE {NoFile}

NoResult == [ok |-> FALSE, err |-> "none"]

\* Tiles::new succeeds only on a directory that holds an hgt file.
has_height_files(d) == \E n \in DOMAIN d : d[n].exists

StoreInit ==
    /\ tile = NoTile
    /\ call = Idle
    /\ disk \in {d \in [StoreNames -> {NoFile, ValidFile, DeniedFile, ShortFile}] :
                    /\ \A n \in StoreNames : d[n] \in FileChoices(n)
                    /\ has_height_files(d)}
    /\ tile_mode \in {"InMem", "MemMap"}
    /\ tiles = <<>>
    /\ lock = [s \in Shards |-> Free]
    /\ shardOf \in [StoreCorners -> Shards]
    /\ shardOf[[x |-> -72, y |-> 44]] = 0
    /\ pc = [t \in Threads |-> "idle"]
    /\ arg = [t \in Threads |-> [x |-> 0, y |-> 0]]
    /\ path = [t \in Threads |-> <<>>]
    /\ result = [t \in Threads |-> NoResult]
    /\ budget = [calls |-> MaxCalls, disk |-> MaxDiskChanges]

\* The key of thread t's call.
KeyOf(t) == sw_corner(arg[t])

\* The shard lock DashMap::entry must take is free.
shard_unlocked_always(l, s) == TRUE

shard_unlocked(l, s) == l[s] = Free

\* Entry::Occupied or Entry::Vacant.
contains_key_never(m, sw) == FALSE

contains_key(m, sw) == sw \in DOMAIN m

\* DashMap insert.
insert(m, sw, v) == [k \in DOMAIN m \cup {sw} |-> IF k = sw THEN v ELSE m[k]]

\* load_tile, first half: the path, upper case unless that does not exist.
tile_path(d, sw) ==
    IF d[file_name(sw)].exists THEN file_name(sw) ELSE to_lowercase(file_name(sw))

\* load_tile, second half: load or map the file at the path.
load_tile(d, mode, p) ==
    IF mode = "InMem" THEN Tile_load(p, d[p]) ELSE Tile_memmap(p, d[p])

\* The closure of or_try_insert_with: r is what load_tile returned.
closure_caches_errors(r, sw) ==
    IF r.ok THEN r ELSE Ok(Tile_tombstone(sw))

closure_no_tombstone(r, sw) == r

closure(r, sw) ==
    IF r.ok THEN r
    ELSE IF r.err = "Io" /\ r.kind = "NotFound" THEN Ok(Tile_tombstone(sw))
    ELSE r

\* Arc::new: the allocation made by thread t in its current call.
Arc(t, v) == [id |-> <<t, budget.calls>>, tile |-> v]

\* A thread calls Tiles::get(c).  The threads run the same code: they are
\* numbered in the order of their first calls.
Call(t, c) ==
    /\ pc[t] \in {"idle", "done"}
    /\ IF t = 1 THEN TRUE ELSE pc[t - 1] # "idle"
    /\ budget.calls > 0
    /\ budget' = [budget EXCEPT !.calls = @ - 1]
    /\ arg' = [arg EXCEPT ![t] = c]
    /\ result' = [result EXCEPT ![t] = NoResult]
    /\ pc' = [pc EXCEPT ![t] = "entry"]
    /\ UNCHANGED <<disk, tile_mode, tiles, lock, shardOf, path, tile, call>>

\* entry() gets the shard lock and finds the key: the Arc is cloned and the
\* lock released.
EntryOccupied(t) ==
    /\ pc[t] = "entry"
    /\ shard_unlocked(lock, shardOf[KeyOf(t)])
    /\ contains_key(tiles, KeyOf(t))
    /\ result' = [result EXCEPT ![t] = Ok(tiles[KeyOf(t)])]
    /\ pc' = [pc EXCEPT ![t] = "done"]
    /\ UNCHANGED <<disk, tile_mode, tiles, lock, shardOf, arg, path, budget, tile, call>>

\* entry() gets the shard lock and finds no key: the closure starts.
EntryVacant(t) ==
    /\ pc[t] = "entry"
    /\ shard_unlocked(lock, shardOf[KeyOf(t)])
    /\ ~contains_key(tiles, KeyOf(t))
    /\ lock' = [lock EXCEPT ![shardOf[KeyOf(t)]] = t]
    /\ pc' = [pc EXCEPT ![t] = "load_tile"]
    /\ UNCHANGED <<disk, tile_mode, tiles, shardOf, arg, path, result, budget, tile, call>>

\* load_tile picks the path.
LoadTilePath(t) ==
    /\ pc[t] = "load_tile"
    /\ path' = [path EXCEPT ![t] = tile_path(disk, KeyOf(t))]
    /\ pc' = [pc EXCEPT ![t] = "loading"]
    /\ UNCHANGED <<disk, tile_mode, tiles, lock, shardOf, arg, result, budget, tile, call>>

\* A load whose entry is never dropped: the shard lock stays taken.
LoadTileFinish_keeps_lock(t) ==
    /\ pc[t] = "loading"
    /\ LET r == closure(load_tile(disk, tile_mode, path[t]), KeyOf(t))
       IN  IF r.ok
           THEN /\ tiles' = insert(tiles, KeyOf(t), Arc(t, r.val))
                /\ result' = [result EXCEPT ![t] = Ok(Arc(t, r.val))]
           ELSE /\ tiles' = tiles
                /\ result' = [result EXCEPT ![t] = r]
    /\ path' = [path EXCEPT ![t] = <<>>]
    /\ pc' = [pc EXCEPT ![t] = "done"]
    /\ UNCHANGED <<disk, tile_mode, lock, shardOf, arg, budget, tile, call>>

\* load_tile reads the file; the closure's value is inserted or its error
\* returned; the shard lock is released.
LoadTileFinish(t) ==
    /\ pc[t] = "loading"
    /\ LET r == closure(load_tile(disk, tile_mode, path[t]), KeyOf(t))
       IN  IF r.ok
           THEN /\ tiles' = insert(tiles, KeyOf(t), Arc(t, r.val))
                /\ result' = [result EXCEPT ![t] = Ok(Arc(t, r.val))]
           ELSE /\ tiles' = tiles
                /\ result' = [result EXCEPT ![t] = r]
    /\ lock' = [s \in Shards |-> IF lock[s] = t THEN Free ELSE lock[s]]
    /\ path' = [path EXCEPT ![t] = <<>>]
    /\ pc' = [pc EXCEPT ![t] = "done"]
    /\ UNCHANGED <<disk, tile_mode, shardOf, arg, budget, tile, call>>

\* The environment creates, replaces or removes a file of the directory.
DiskChange ==
    /\ budget.disk > 0
    /\ budget' = [budget EXCEPT !.disk = @ - 1]
    /\ \E n \in StoreNames : \E f \in FileChoices(n) :
          /\ f # disk[n]
          /\ disk' = [disk EXCEPT ![n] = f]
    /\ UNCHANGED <<tile_mode, tiles, lock, shardOf, pc, arg, path, result, tile, call>>

StoreNext ==
    \/ \E t \in Threads, c \in StoreCoords : Call(t, c)
    \/ \E t \in Threads : EntryOccupied(t)
    \/ \E t \in Threads : EntryVacant(t)
    \/ \E t \in Threads : LoadTilePath(t)
    \/ \E t \in Threads : LoadTileFinish(t)
    \/ DiskChange

SpecStore == StoreInit /\ [][StoreNext]_vars

(***************************************************************************)
(* Claims about the tile store.                                            *)
(***************************************************************************)
\* (floor(c.x), floor(c.y)) of the coordinate thread t passed to get.
FloorOf(t) == [x |-> FloorDeg(arg[t].x), y |-> FloorDeg(arg[t].y)]

\* Every coordinate whose floor is sw.
CellCoords(sw) ==
    {[x |-> sw.x * UnitsPerDeg + dx, y |-> sw.y * UnitsPerDeg + dy] :
        dx \in 0..(UnitsPerDeg - 1), dy \in 0..(UnitsPerDeg - 1)}

\* The directory is as it was when the store was created.
DirectoryUntouched == budget.disk = MaxDiskChanges

\* Neither form of the tile file name of sw is in the directory.
FileAbsent(sw) ==
    /\ ~disk[file_name(sw)].exists
    /\ ~disk[to_lowercase(file_name(sw))].exists

Loading(t) == pc[t] \in {"load_tile", "loading"}

\* C1: for every coordinate c whose tile file is absent from the directory,
\* get(c) returns Ok with a tombstone stored under sw = floor(c), and that
\* tile's get returns Some(0) for every coordinate whose floor is sw.
C1_MissingFileGivesTombstone ==
    \A t \in Threads :
        (pc[t] = "done" /\ DirectoryUntouched /\ FileAbsent(FloorOf(t))) =>
            /\ result[t].ok
            /\ result[t].val.tile.samples.store = "Tombstone"
            /\ FloorOf(t) \in DOMAIN tiles
            /\ tiles[FloorOf(t)] = result[t].val
            /\ \A c \in CellCoords(FloorOf(t)) : Tile_get(result[t].val.tile, c) = Some(0)

\* A get of the south pole, whose file is absent, has returned Ok.
C1_Witness ==
    \E t \in Threads :
        /\ pc[t] = "done"
        /\ DirectoryUntouched
        /\ arg[t] = [x |-> 0, y |-> -90 * UnitsPerDeg]
        /\ FileAbsent(FloorOf(t))
        /\ result[t].ok

\* C2, in every state: at most one load of a SW corner is in progress, and
\* every caller that was handed a tile holds the tile installed for its
\* corner.
C2_State ==
    /\ \A sw \in StoreCorners :
          Cardinality({t \in Threads : Loading(t) /\ FloorOf(t) = sw}) <= 1
    /\ \A t \in Threads :
          (pc[t] = "done" /\ result[t].ok) =>
              /\ FloorOf(t) \in DOMAIN tiles
              /\ result[t].val = tiles[FloorOf(t)]

\* C2, in every step: an installed tile is never replaced by another load,
\* and a call that returns once a tile is installed for its corner returns
\* that tile.
C2_Step ==
    /\ \A sw \in DOMAIN tiles : sw \in DOMAIN tiles' /\ tiles'[sw] = tiles[sw]
    /\ \A t \in Threads :
          (pc[t] # "done" /\ pc'[t] = "done" /\ FloorOf(t) \in DOMAIN tiles') =>
              result'[t] = Ok(tiles'[FloorOf(t)])

\* C2: under any interleaving of concurrent get calls at most one load of a
\* SW corner is in progress at any time, at most one load per corner ever
\* installs a tile, and every caller of that corner, those that arrived
\* during the load included, receives the single installed tile.
C2_SingleLoadPerCorner == []C2_State /\ [][C2_Step]_vars

\* Two threads asked for the same corner and hold the same tile, loaded from
\* the file by the first of them.
C2_Witness ==
    /\ pc[1] = "done" /\ pc[2] = "done"
    /\ FloorOf(1) = FloorOf(2)
    /\ result[1].ok /\ result[2].ok
    /\ result[1].val = result[2].val
    /\ result[1].val.id[1] = 1
    /\ result[1].val.tile.samples.store # "Tombstone"

\* C3, in every state: a tile that get has returned is the one the map
\* holds for its corner.
C3_State ==
    \A t \in Threads :
        (pc[t] = "done" /\ result[t].ok) =>
            /\ FloorOf(t) \in DOMAIN tiles
            /\ tiles[FloorOf(t)] = result[t].val

\* C3, in every step: an entry of the map stays as it is, and a get for a
\* coordinate whose floor is in the map returns the entry without loading.
C3_Step ==
    \A sw \in DOMAIN tiles :
        /\ sw \in DOMAIN tiles'
        /\ tiles'[sw] = tiles[sw]
        /\ \A t \in Threads :
              (FloorOf(t) = sw /\ pc[t] = "entry" /\ pc'[t] # "entry") =>
                  /\ pc'[t] = "done"
                  /\ result'[t] = Ok(tiles[sw])
        /\ \A t \in Threads : (FloorOf(t)' = sw /\ Loading(t)') => Loading(t)

\* C3: once get has returned a tile for a SW corner, the map contains that
\* corner in every later state and every later get for a coordinate with
\* the same floor returns the very same tile without another disk load,
\* also when the tile is a tombstone and the file appears afterwards.
C3_InstalledTileIsStable == []C3_State /\ [][C3_Step]_vars

\* A tombstone is installed, the file has since appeared in the directory,
\* and two gets for different coordinates of the cell hold the tombstone
\* that one of them allocated.
C3_Witness ==
    \E t, u \in Threads :
        /\ t # u
        /\ pc[t] = "done" /\ pc[u] = "done"
        /\ arg[t] # arg[u]
        /\ FloorOf(t) = FloorOf(u)
        /\ result[t].ok /\ result[u].ok
        /\ result[t].val.tile.samples.store = "Tombstone"
        /\ result[t].val.id[1] = t
        /\ result[u].val = result[t].val
        /\ disk[file_name(FloorOf(t))] = ValidFile

\* The file at path p makes the load fail with something other than
\* file-not-found, and the error that is.
ValidLength(f) == Len(f.bytes) \in {RES_1_ARCSECONDS_FIBE_BEN, RES_3_ARCSECONDS_FIBE_BEN}
FailsOtherwise(p) ==
    /\ disk[p].exists
    /\ (~ValidLength(disk[p]) \/ p \notin UpperNames \/ ~disk[p].readable)
ErrorOf(p) ==
    IF ~ValidLength(disk[p]) THEN "HgtLen"
    ELSE IF p \notin UpperNames THEN "HgtName"
    ELSE "Io"

\* C4, in every step.
C4_Step ==
    /\ \A t \in Threads :
          (pc[t] = "loading" /\ pc'[t] = "done" /\ FailsOtherwise(path[t])) =>
              /\ ~result'[t].ok
              /\ result'[t].err = ErrorOf(path[t])
              /\ result'[t].err = "Io" => result'[t].kind # "NotFound"
              /\ tiles' = tiles
              /\ FloorOf(t) \notin DOMAIN tiles'
    /\ \A t \in Threads :
          (pc[t] = "entry" /\ pc'[t] # "entry" /\ FloorOf(t) \notin DOMAIN tiles) =>
              Loading(t)'

\* C4: when loading the tile of a SW corner fails with anything other than
\* file-not-found, get returns that error, the map is left unchanged and
\* without an entry for the corner, and a later get for the corner attempts
\* the load again.
C4_ErrorsAreNotCached == [][C4_Step]_vars

\* One get has returned an error for a corner and another get for the same
\* corner is loading.
C4_Witness ==
    \E t, u \in Threads :
        /\ t # u
        /\ pc[t] = "done"
        /\ ~result[t].ok
        /\ result[t].err = "HgtLen"
        /\ FloorOf(u) = FloorOf(t)
        /\ pc[u] = "loading"

\* C5: a get for a SW corner that is present in the map does not wait for
\* another thread, in particular not for another thread's disk load of a
\* different SW corner.
C5_PresentReaderNeverWaits ==
    \A t, u \in Threads :
        ~(/\ t # u
          /\ pc[t] = "entry"
          /\ FloorOf(t) \in DOMAIN tiles
          /\ Loading(u)
          /\ FloorOf(u) # FloorOf(t)
          /\ lock[shardOf[FloorOf(t)]] = u)

\* Only the lower-case form of the tile file name of sw is in the
\* directory, with a valid file.
LowercaseOnly(sw) ==
    /\ ~disk[file_name(sw)].exists
    /\ disk[to_lowercase(file_name(sw))] = ValidFile

\* C10: when the directory holds a valid tile file only under the
\* lower-case form of its name, get for a coordinate of that cell returns a
\* tile with the file's elevations, not an error and not a tombstone.
C10_LowercaseFileLoads ==
    \A t \in Threads :
        (pc[t] = "done" /\ DirectoryUntouched /\ LowercaseOnly(FloorOf(t))) =>
            /\ result[t].ok
            /\ result[t].val.tile.samples.store # "Tombstone"
            /\ \A xy \in GridPositions(result[t].val.tile) :
                  get_xy(result[t].val.tile, xy)
                      = SampleOf(1, (Dim3 - 1 - xy[2]) * Dim3 + xy[1])

(***************************************************************************)
(* Construction specification: Tiles::new applied to one directory.  A     *)
(* directory is what read_dir makes of it: whether the scan opens, and the *)
(* entries it yields in order, each a file name or an entry error.         *)
(***************************************************************************)
MaxEntries == 3

\* Path::extension: the part of the file name after its last dot; none when
\* the name has no dot or its only dot leads it.
extension(name) ==
    IF LastDot(name) <= 1 THEN None
    ELSE Some(SubSeq(name, LastDot(name) + 1, Len(name)))

EntryError == [err |-> TRUE]
DirEntry(name) == [err |-> FALSE, name |-> name]

EntryNames ==
    { <<"N", "4", "4", "W", "0", "7", "2", ".", "h", "g", "t">>,
      <<"N", "4", "4", "W", "0", "7", "2", ".", "H", "G", "T">>,
      <<"r", "e", "a", "d", "m", "e", ".", "t", "x", "t">>,
      <<"h", "g", "t">> }

RECURSIVE SeqsUpTo(_, _)
SeqsUpTo(S, n) ==
    IF n = 0 THEN {<<>>}
    ELSE LET shorter == SeqsUpTo(S, n - 1)
         IN  shorter \cup {Append(s, e) : s \in shorter, e \in S}

Directories(n) ==
    {[opens |-> FALSE, entries |-> <<>>]}
        \cup {[opens |-> TRUE, entries |-> es] :
                es \in SeqsUpTo({EntryError} \cup {DirEntry(nm) : nm \in EntryNames}, n)}

NoHeightFiles(dir) == [ok |-> FALSE, err |-> "Path", dir |-> dir]

\* The scan of Tiles::new from entry i on: an entry error is returned, the
\* first entry whose extension is "hgt" ends the scan.
RECURSIVE scan_for_hgt(_, _)
scan_for_hgt(entries, i) ==
    IF i > Len(entries) THEN Ok(FALSE)
    ELSE IF entries[i].err THEN IoError("Other")
    ELSE IF extension(entries[i].name) = Some(<<"h", "g", "t">>) THEN Ok(TRUE)
    ELSE scan_for_hgt(entries, i + 1)

Tiles_new(tile_dir, mode) ==
    IF ~tile_dir.opens THEN IoError("Other")
    ELSE LET scan == scan_for_hgt(tile_dir.entries, 1)
         IN  IF ~scan.ok THEN scan
             ELSE IF scan.val
                  THEN Ok([tile_dir |-> tile_dir, tile_mode |-> mode, tiles |-> <<>>])
                  ELSE NoHeightFiles(tile_dir)

NewInit ==
    /\ StoreUnused
    /\ disk = <<>>
    /\ tile = NoTile
    /\ call \in {[fn |-> "dir", dir |-> d, mode |-> m] :
                    d \in Directories(MaxEntries), m \in {"InMem", "MemMap"}}

NewTiles ==
    /\ call.fn = "dir"
    /\ call' = [fn |-> "new", dir |-> call.dir, mode |-> call.mode,
                ret |-> Tiles_new(call.dir, call.mode)]
    /\ UNCHANGED <<storeVars, tile>>

NewNext == NewTiles

SpecNew == NewInit /\ [][NewNext]_vars

\* The directory scans without error from end to end.
ScansCleanly(dir) == dir.opens /\ \A i \in 1..Len(dir.entries) : ~dir.entries[i].err

\* Some entry of the directory has the extension hgt, in any letter case.
HasHgtAnyCase(dir) ==
    \E i \in 1..Len(dir.entries) :
        /\ ~dir.entries[i].err
        /\ extension(dir.entries[i].name).some
        /\ to_lowercase(extension(dir.entries[i].name).val) = <<"h", "g", "t">>

\* C11: on a directory that scans without error, Tiles::new succeeds
\* exactly when some entry has the extension hgt compared without regard to
\* letter case, and fails with the no-height-files error naming the
\* directory otherwise.
C11_NewAcceptsHgtInAnyCase ==
    (call.fn = "new" /\ ScansCleanly(call.dir)) =>
        IF HasHgtAnyCase(call.dir)
        THEN call.ret.ok
        ELSE call.ret = NoHeightFiles(call.dir)

(***************************************************************************)
(* Loading specification: Tile::load and Tile::memmap applied to one file  *)
(* of valid length under one file name.                                    *)
(***************************************************************************)
\* File stems: every combination of a hemisphere letter, two characters, a
\* hemisphere letter and three characters, and stems of other lengths.
LatLetters == {"N", "S", "n", "X"}
LatFields == {<<"4", "4">>, <<"0", "4">>, <<"+", "4">>, <<"-", "4">>, <<"4", "x">>, <<" ", "4">>}
LonLetters == {"E", "W", "w"}
LonFields == {<<"0", "7", "2">>, <<"+", "7", "2">>, <<"-", "7", "2">>,
              <<"0", "7", "a">>, <<"1", "8", "0">>}

LoadStems ==
    {<<a>> \o dd \o <<b>> \o ddd :
        a \in LatLetters, dd \in LatFields, b \in LonLetters, ddd \in LonFields}
    \cup { <<>>,
           <<"N", "4", "4", "W", "7", "2">>,
           <<"N", "4", "4", "W", "0", "7", "2", "0">>,
           <<"N", "4", "4", "W", "0", "7", "2", ".", "x">> }

LoadInit ==
    /\ StoreUnused
    /\ disk = <<>>
    /\ tile = NoTile
    /\ call \in {[fn |-> "path", path |-> stem \o <<".", "h", "g", "t">>, file |-> ValidFile] :
                    stem \in LoadStems}

LoadInMem ==
    /\ call.fn = "path"
    /\ call' = [fn |-> "load", path |-> call.path, file |-> call.file,
                ret |-> Tile_load(call.path, call.file)]
    /\ UNCHANGED <<storeVars, tile>>

LoadMemMap ==
    /\ call.fn = "path"
    /\ call' = [fn |-> "memmap", path |-> call.path, file |-> call.file,
                ret |-> Tile_memmap(call.path, call.file)]
    /\ UNCHANGED <<storeVars, tile>>

LoadNext == LoadInMem \/ LoadMemMap

SpecLoad == LoadInit /\ [][LoadNext]_vars

\* The stem of path p: the path without its final ".hgt".
StemOf(p) == SubSeq(p, 1, Len(p) - 4)

\* s has the form [NS] d d [EW] d d d, every d a decimal digit.
MatchesHgtPattern(s) ==
    /\ Len(s) = 7
    /\ s[1] \in {"N", "S"}
    /\ IsDigit(s[2]) /\ IsDigit(s[3])
    /\ s[4] \in {"E", "W"}
    /\ IsDigit(s[5]) /\ IsDigit(s[6]) /\ IsDigit(s[7])

\* The SW corner a stem of that form names.
CornerNamed(s) ==
    [x |-> (IF s[4] = "E" THEN 1 ELSE -1) * DigitsValue(SubSeq(s, 5, 7)),
     y |-> (IF s[1] = "N" THEN 1 ELSE -1) * DigitsValue(SubSeq(s, 2, 3))]

\* C12: for a file of valid length, Tile::load and Tile::memmap succeed
\* with the SW corner the stem names when the stem is [NS]dd[EW]ddd with
\* decimal digits only, and fail with the invalid-name error for every
\* other stem, a stem with a sign character in a digit position included.
C12_StemStrictlyMatched ==
    call.fn \in {"load", "memmap"} =>
        IF MatchesHgtPattern(StemOf(call.path))
        THEN call.ret.ok /\ call.ret.val.sw_corner_center = CornerNamed(StemOf(call.path))
        ELSE call.ret = HgtName(call.path)

(***************************************************************************)
(* terrain/src/math/haversine.rs: the great-circle walker.                 *)
(*                                                                         *)
(* The walker's floats are exact here.  A path runs along a meridian or    *)
(* along the equator, where the great circle through its end points is the *)
(* meridian or the equator itself; lengths along the path (the arc length  *)
(* and the step size) are counted in coordinate units of arc.  A float is  *)
(* a fraction [num, den], Inf, or NaN.                                     *)
(***************************************************************************)
MaxArc == 7
MaxStep == 4
MaxNones == 2

NaN == [nan |-> TRUE]
Inf == [nan |-> FALSE, inf |-> TRUE]
Frac(n, d) == [nan |-> FALSE, inf |-> FALSE, num |-> n, den |-> d]

\* T::one() / n.
Reciprocal(n) == IF n = 0 THEN Inf ELSE Frac(1, n)

\* k * f for a count k >= 0: 0 * inf is NaN.
Times(k, f) ==
    IF f.nan THEN NaN
    ELSE IF f.inf THEN (IF k = 0 THEN NaN ELSE Inf)
    ELSE Frac(k * f.num, f.den)

\* (a / b).ceil() for a >= 0 and b > 0.
CeilDiv(a, b) == (a + b - 1) \div b

NaNPoint == [nan |-> TRUE]

\* get_params: d, the arc between p1 and p2, and what get_point needs of
\* the two points.
get_params(p1, p2) == [d |-> Abs(p2.x - p1.x) + Abs(p2.y - p1.y), p1 |-> p1, p2 |-> p2]

\* get_point: the point at fraction f of the arc; the sine of an infinite
\* angle is NaN.
get_point(params, f) ==
    IF f.nan \/ f.inf THEN NaNPoint
    ELSE [x |-> params.p1.x + ((params.p2.x - params.p1.x) * f.num) \div f.den,
          y |-> params.p1.y + ((params.p2.y - params.p1.y) * f.num) \div f.den]

\* HaversineIter::new.  step_size_m is total_distance / number_of_points,
\* NaN when both are 0.
HaversineIter_new(start, max_step_size, end) ==
    LET params == get_params(start, end)
        total_distance == params.d
        number_of_points == CeilDiv(total_distance, max_step_size)
    IN  [params |-> params,
         step_size_m |-> IF number_of_points = 0 THEN NaN
                         ELSE Frac(total_distance, number_of_points),
         total_points |-> number_of_points + 1,
         current_point |-> 0,
         inverse |-> Reciprocal(number_of_points)]

\* Iterator::next: the value returned and the walker after the call.
HaversineIter_next_inclusive(it) ==
    IF it.current_point <= it.total_points
    THEN [ret |-> Some(get_point(it.params, Times(it.current_point, it.inverse))),
          iter |-> [it EXCEPT !.current_point = @ + 1]]
    ELSE [ret |-> None, iter |-> it]

HaversineIter_next(it) ==
    IF it.current_point < it.total_points
    THEN [ret |-> Some(get_point(it.params, Times(it.current_point, it.inverse))),
          iter |-> [it EXCEPT !.current_point = @ + 1]]
    ELSE [ret |-> None, iter |-> it]

\* ExactSizeIterator::len.
HaversineIter_len(it) == it.total_points - it.current_point

\* Iterator::collect.
RECURSIVE collect(_)
collect(it) ==
    LET r == HaversineIter_next(it)
    IN  IF r.ret.some THEN <<r.ret.val>> \o collect(r.iter) ELSE <<>>

(***************************************************************************)
(* Walker specification: one walker, next() called until it has returned   *)
(* None MaxNones times.                                                    *)
(***************************************************************************)
\* Paths along the meridian of 72 W from the SW corner of N44W072, and
\* along the equator from the Greenwich meridian.
WalkStarts == {[x |-> -72 * UnitsPerDeg, y |-> 44 * UnitsPerDeg], [x |-> 0, y |-> 0]}

WalkEnds(s, arc) ==
    IF s.y = 0 THEN {[x |-> s.x + d, y |-> 0] : d \in (-arc)..arc}
    ELSE {[x |-> s.x, y |-> s.y + d] : d \in (-arc)..arc}

WalkInit ==
    /\ StoreUnused
    /\ disk = <<>>
    /\ tile = NoTile
    /\ \E s \in WalkStarts : \E e \in WalkEnds(s, MaxArc) : \E m \in 1..MaxStep :
          call = [fn |-> "new", start |-> s, end |-> e, max_step |-> m,
                  iter |-> HaversineIter_new(s, m, e),
                  len_before |-> 0, ret |-> None, points |-> <<>>, nones |-> 0]

WalkNext ==
    /\ call.fn \in {"new", "next"}
    /\ call.nones < MaxNones
    /\ LET r == HaversineIter_next(call.iter)
       IN  call' = [call EXCEPT !.fn = "next",
                                !.len_before = HaversineIter_len(call.iter),
                                !.iter = r.iter,
                                !.ret = r.ret,
                                !.points = IF r.ret.some THEN Append(@, r.ret.val) ELSE @,
                                !.nones = IF r.ret.some THEN @ ELSE @ + 1]
    /\ UNCHANGED <<storeVars, tile>>

SpecWalk == WalkInit /\ [][WalkNext]_vars

\* The arc length of the walk under way, and N = ceil(arc / max_step): the
\* least number of steps of at most max_step that cover the arc.
ArcOf(c) == Abs(c.end.x - c.start.x) + Abs(c.end.y - c.start.y)
StepsOf(c) == CHOOSE n \in 1..ArcOf(c) : n * c.max_step >= ArcOf(c) /\ (n - 1) * c.max_step < ArcOf(c)

\* The point at fraction i/n of the way from s to e.
PointAtFraction(s, e, i, n) ==
    [x |-> s.x + ((e.x - s.x) * i) \div n, y |-> s.y + ((e.y - s.y) * i) \div n]

MaxZone == 2
MaxLink == 3
MaxCount == 4

\* Speed of light in m/s.
C == 299792458

RECURSIVE GCD(_, _)
GCD(a, b) == IF b = 0 THEN a ELSE GCD(b, a % b)

Reduced(n, d) == IF n = 0 THEN Frac(0, 1) ELSE Frac(n \div GCD(n, d), d \div GCD(n, d))

\* Float division, product and difference of values that are not negative:
\* 0 / 0 is NaN and x / 0 is infinite.
FDiv(a, b) ==
    IF a.nan \/ b.nan THEN NaN
    ELSE IF b.num = 0 THEN (IF a.num = 0 THEN NaN ELSE Inf)
    ELSE LET g == GCD(a.num, b.num)
             h == GCD(a.den, b.den)
         IN  Reduced((a.num \div g) * (b.den \div h), (a.den \div h) * (b.num \div g))

FMul(a, b) ==
    IF a.nan \/ b.nan THEN NaN
    ELSE LET g == GCD(a.num, b.den)
             h == GCD(b.num, a.den)
         IN  Reduced((a.num \div g) * (b.num \div h), (a.den \div h) * (b.den \div g))

FSub(a, b) ==
    IF a.nan \/ b.nan THEN NaN
    ELSE Reduced(a.num * b.den - b.num * a.den, a.den * b.den)

FSqrt(a) ==
    IF a.nan THEN NaN
    ELSE IF a.num = 0 THEN Frac(0, 1)
    ELSE [nan |-> FALSE, inf |-> FALSE, sqrt_of |-> a]

\* FresnelZone::new.
FresnelZone_new(zone, f_hz, distance_m) ==
    [zone |-> zone, wavelength |-> FDiv(Frac(C, 1), Frac(f_hz, 1)),
     distance_m |-> Frac(distance_m, 1)]

\* FresnelZone::iter.
FresnelZone_iter(fz, len) ==
    [zone |-> Frac(fz.zone, 1), wavelength |-> fz.wavelength, distance_m |-> fz.distance_m,
     range |-> [start |-> 0, end |-> len]]

\* FresnelZoneIter::next: the value returned, the iterator after the call,
\* and whether the call divided by zero.
FresnelZoneIter_next(it) ==
    IF it.range.start < it.range.end
    THEN LET n == it.range.start
             d1 == FMul(it.distance_m, FDiv(Frac(n, 1), Frac(it.range.end - 1, 1)))
             d2 == FSub(it.distance_m, d1)
         IN  [ret |-> Some(FSqrt(FDiv(FMul(FMul(FMul(it.zone, it.wavelength), d1), d2),
                                      it.distance_m))),
              iter |-> [it EXCEPT !.range.start = @ + 1],
              div_by_zero |-> it.range.end - 1 = 0]
    ELSE [ret |-> None, iter |-> it, div_by_zero |-> FALSE]

(***************************************************************************)
(* Fresnel specification: one iterator, next() called until it has         *)
(* returned None MaxNones times.                                           *)
(***************************************************************************)
\* Frequencies of wavelength 1 m and 1/2 m.
FresnelFreqs == {C, 2 * C}

FresnelInit ==
    /\ StoreUnused
    /\ disk = <<>>
    /\ tile = NoTile
    /\ \E z \in 1..MaxZone : \E f \in FresnelFreqs : \E d \in 1..MaxLink : \E len \in 0..MaxCount :
          call = [fn |-> "iter", zone |-> z, f_hz |-> f, distance_m |-> d, len |-> len,
                  iter |-> FresnelZone_iter(FresnelZone_new(z, f, d), len),
                  ret |-> None, radii |-> <<>>, nones |-> 0, div_by_zero |-> FALSE]

FresnelNext ==
    /\ call.fn \in {"iter", "fresnel_next"}
    /\ call.nones < MaxNones
    /\ LET r == FresnelZoneIter_next(call.iter)
       IN  call' = [call EXCEPT !.fn = "fresnel_next",
                                !.iter = r.iter,
                                !.ret = r.ret,
                                !.radii = IF r.ret.some THEN Append(@, r.ret.val) ELSE @,
                                !.nones = IF r.ret.some THEN @ ELSE @ + 1,
                                !.div_by_zero = @ \/ r.div_by_zero]
    /\ UNCHANGED <<storeVars, tile>>

SpecFresnel == FresnelInit /\ [][FresnelNext]_vars

\* C18: for zone >= 1, frequency > 0, link length > 0 and count L >= 1 the
\* iterator yields L radii and then ends, its first and its last radius are
\* 0, and no step divides by zero; for L = 0 it yields nothing.
C18_FresnelEndsAreZero ==
    call.fn \in {"iter", "fresnel_next"} =>
        /\ Len(call.radii) <= call.len
        /\ call.nones > 0 => Len(call.radii) = call.len
        /\ Len(call.radii) >= 1 => call.radii[1] = Frac(0, 1)
        /\ (call.len >= 1 /\ Len(call.radii) = call.len) => call.radii[call.len] = Frac(0, 1)
        /\ ~call.div_by_zero

(***************************************************************************)
(* itm/src/error.rs and itm/src/lib.rs: the return code of the propagation *)
(* engine.                                                                 *)
(***************************************************************************)
I32_MAX == 2147483647
I32_MIN == -I32_MAX - 1

Panic(what) == [ok |-> FALSE, panic |-> TRUE, what |-> what]
Err(e) == [ok |-> FALSE, panic |-> FALSE, err |-> e]

\* The enumerants of ItmErrCode by return code.
ItmErrCodes ==
    [c \in (1000..1014) \cup (1016..1022) |->
        CASE c = 1000 -> "TxTerminalHeight"
          [] c = 1001 -> "RxTerminalHeight"
          [] c = 1002 -> "InvalidRadioClimate"
          [] c = 1003 -> "InvalidTime"
          [] c = 1004 -> "InvalidLocation"
          [] c = 1005 -> "InvalidSituation"
          [] c = 1006 -> "InvalidConfidence"
          [] c = 1007 -> "InvalidReliability"
          [] c = 1008 -> "Refractivity"
          [] c = 1009 -> "Frequency"
          [] c = 1010 -> "Polarization"
          [] c = 1011 -> "Epsilon"
          [] c = 1012 -> "Sigma"
          [] c = 1013 -> "GroundImpedance"
          [] c = 1014 -> "Mdvar"
          [] c = 1016 -> "EffectiveEarth"
          [] c = 1017 -> "PathDistance"
          [] c = 1018 -> "DeltaH"
          [] c = 1019 -> "TxSitingCriteria"
          [] c = 1020 -> "RxSitingCriteria"
          [] c = 1021 -> "SurfaceRefractivitySmall"
          [] OTHER -> "SurfaceRefractivityLarge"]

\* ItmErrCode::from_retcode.
from_retcode(err_code, val) ==
    IF err_code \in {0, 1} THEN Ok(val)
    ELSE IF err_code \in DOMAIN ItmErrCodes THEN Err(ItmErrCodes[err_code])
    ELSE Panic("unreachable")

\* p2p: the engine has returned ret_code and attenuation_db.
p2p(ret_code, attenuation_db) == from_retcode(ret_code, attenuation_db)

\* Return codes: around the success codes, around the error codes, and the
\* ends of the c_int range.
RetCodes == ((-20)..20) \cup (980..1040) \cup {I32_MIN, I32_MAX}

ItmInit ==
    /\ StoreUnused
    /\ disk = <<>>
    /\ tile = NoTile
    /\ call \in {[fn |-> "ffi_p2p", ret_code |-> c, attenuation_db |-> a] :
                    c \in RetCodes, a \in {0, 120}}

ItmP2P ==
    /\ call.fn = "ffi_p2p"
    /\ call' = [fn |-> "p2p", ret_code |-> call.ret_code, attenuation_db |-> call.attenuation_db,
                ret |-> p2p(call.ret_code, call.attenuation_db)]
    /\ UNCHANGED <<storeVars, tile>>

SpecItm == ItmInit /\ [][ItmP2P]_vars

\* C19: for every return code of the engine the wrapper returns
\* Ok(attenuation) exactly when the code is 0 or 1, returns Err with an
\* enumerant of ItmErrCode for every other code, and never panics.
C19_EveryRetcodeIsMapped ==
    call.fn = "p2p" =>
        /\ ~("panic" \in DOMAIN call.ret /\ call.ret.panic)
        /\ call.ret.ok <=> call.ret_code \in {0, 1}
        /\ call.ret.ok => call.ret.val = call.attenuation_db
        /\ ~call.ret.ok => call.ret.err \in {ItmErrCodes[c] : c \in DOMAIN ItmErrCodes}

(***************************************************************************)
(* nasadem/src/lib.rs: Tile::iter and Sample.                              *)
(***************************************************************************)
\* Half an arcsecond, in units.
HALF_ARCSEC == UnitsPerDeg \div (2 * ARCSEC_PER_DEG)

\* polygon: the ring of the res-arcsecond square around center.
polygon(center, res) ==
    LET delta == res * HALF_ARCSEC
        n == center.y + delta
        e == center.x + delta
        s == center.y - delta
        w == center.x - delta
    IN  <<[x |-> w, y |-> s], [x |-> e, y |-> s], [x |-> e, y |-> n], [x |-> w, y |-> n],
          [x |-> w, y |-> s]>>

\* Tile::xy_to_polygon.
xy_to_polygon(t, xy) ==
    polygon([x |-> t.sw_corner_center.x * UnitsPerDeg
                     + (xy[1] * t.resolution * UnitsPerDeg) \div ARCSEC_PER_DEG,
             y |-> t.sw_corner_center.y * UnitsPerDeg
                     + (xy[2] * t.resolution * UnitsPerDeg) \div ARCSEC_PER_DEG],
            t.resolution)

\* Sample::elevation and Sample::polygon of Sample { tile: t, index }.
Sample_elevation(t, index) == SampleStore_get_unchecked(t.samples, index)
Sample_polygon(t, index) == xy_to_polygon(t, linear_index_to_xy(t, index))

\* Tile::iter: the range 0..(cols * rows) mapped to samples; next() on it.
Tile_iter(t) == [t |-> t, start |-> 0, end |-> t.dimensions[1] * t.dimensions[2]]

TileIter_next(it) ==
    IF it.start < it.end
    THEN [ret |-> Some([index |-> it.start,
                        elevation |-> Sample_elevation(it.t, it.start),
                        polygon |-> Sample_polygon(it.t, it.start)]),
          iter |-> [it EXCEPT !.start = @ + 1]]
    ELSE [ret |-> None, iter |-> it]

(***************************************************************************)
(* Iteration specification: one tile, Tile::iter and next() until None.    *)
(***************************************************************************)
IterStart ==
    /\ call = Idle
    /\ call' = [fn |-> "iter", iter |-> Tile_iter(tile), yielded |-> <<>>, ended |-> FALSE]
    /\ UNCHANGED <<storeVars, tile>>

IterNextSample ==
    /\ call.fn = "iter"
    /\ ~call.ended
    /\ LET r == TileIter_next(call.iter)
       IN  call' = [call EXCEPT !.iter = r.iter,
                                !.yielded = IF r.ret.some THEN Append(@, r.ret.val) ELSE @,
                                !.ended = ~r.ret.some]
    /\ UNCHANGED <<storeVars, tile>>

IterNext == IterStart \/ IterNextSample

SpecIter == TileInit /\ [][IterNext]_vars

\* The k-th grid position (k from 0) in row-major order from the south-west:
\* west to east within a row, rows northward.
RowMajorFromSW(t, k) == <<k % t.dimensions[1], k \div t.dimensions[1]>>

\* The square of side resolution arcseconds centred on grid position xy.
SquareAround(t, xy) ==
    LET cx == t.sw_corner_center.x * UnitsPerDeg + xy[1] * SampleUnits(t)
        cy == t.sw_corner_center.y * UnitsPerDeg + xy[2] * SampleUnits(t)
        h == SampleUnits(t) \div 2
    IN  <<[x |-> cx - h, y |-> cy - h], [x |-> cx + h, y |-> cy - h],
          [x |-> cx + h, y |-> cy + h], [x |-> cx - h, y |-> cy + h],
          [x |-> cx - h, y |-> cy - h]>>

\* C20: Tile::iter yields cols * rows samples in row-major order from the
\* south-west: the k-th sample has the elevation of the k-th grid position
\* in that order and its polygon is the square centred on that position,
\* the first being the south-west corner sample.
C20_IterRowMajorFromSouthWest ==
    call.fn = "iter" =>
        /\ Len(call.yielded) <= tile.dimensions[1] * tile.dimensions[2]
        /\ call.ended => Len(call.yielded) = tile.dimensions[1] * tile.dimensions[2]
        /\ \A k \in 1..Len(call.yielded) :
              /\ call.yielded[k].elevation = get_xy(tile, RowMajorFromSW(tile, k - 1))
              /\ call.yielded[k].polygon = SquareAround(tile, RowMajorFromSW(tile, k - 1))

(***************************************************************************)
(* terrain/src/profile.rs and propah/src/p2p.rs: the profile builders.     *)
(*                                                                         *)
(* Point2PointBuilder::build is written against a Profile whose altitudes  *)
(* and elevations are floats and which carries distances_m; that build is  *)
(* ProfileBuilder::build with float sums, and distances_m is               *)
(* linspace(0, D, N).                                                      *)
(***************************************************************************)
Builder(name) == [ok |-> FALSE, err |-> "Builder", name |-> name]

IsPanic(r) == "panic" \in DOMAIN r /\ r.panic

WrapI16(v) == ((v + 32768) % 65536) - 32768

\* a + b.  On i16 an overflowing sum panics when the build checks overflow
\* and wraps otherwise; on floats the sum is exact.
Add(a, b, arith) ==
    IF arith = "float" \/ (I16_MIN <= a + b /\ a + b <= I16_MAX) THEN Ok(a + b)
    ELSE IF arith = "i16_checked" THEN Panic("attempt to add with overflow")
    ELSE Ok(WrapI16(a + b))

\* linspace: dy = (y_end - y_start) / (n - 1), then y_start + x * dy for x in
\* 0..n.  With n = 1, dy is infinite or NaN and 0 * dy is NaN.
linspace(y_start, y_end, n) ==
    [i \in 1..n |-> IF n = 1 THEN NaN
                    ELSE Frac(y_start * (n - 1) + (i - 1) * (y_end - y_start), n - 1)]

\* Tiles::get run from entry to return by one thread: the value returned and
\* the map afterwards.  r is what the loading closure returned for sw.
Tiles_get_loaded(m, sw, r) ==
    IF r.ok
    THEN [ret |-> Ok([id |-> <<0, Cardinality(DOMAIN m)>>, tile |-> r.val]),
          tiles |-> insert(m, sw, [id |-> <<0, Cardinality(DOMAIN m)>>, tile |-> r.val])]
    ELSE [ret |-> r, tiles |-> m]

Tiles_get(m, d, mode, coord) ==
    IF contains_key(m, sw_corner(coord)) THEN [ret |-> Ok(m[sw_corner(coord)]), tiles |-> m]
    ELSE Tiles_get_loaded(m, sw_corner(coord),
            closure(load_tile(d, mode, tile_path(d, sw_corner(coord))), sw_corner(coord)))

\* Tile::get of a walker point: a NaN cast to isize is 0.
Tile_get_point(t, p) ==
    IF p = NaNPoint THEN Some(SampleStore_get_unchecked(t.samples, xy_to_linear_index(t, <<0, 0>>)))
    ELSE Tile_get(t, p)

\* Tile::get_unchecked.
Tile_get_unchecked(t, coord) ==
    SampleStore_get_unchecked(t.samples, xy_to_linear_index(t, coord_to_xy(t, coord)))

\* The terrain loop of build from point i on, cur being the tile carried.
\* terrain_here is the step whose point lies in the tile carried,
\* terrain_fetched the step that asked the store for the tile (g).
RECURSIVE terrain_loop(_, _, _, _, _, _)
terrain_cons(v, rest) == IF rest.ok THEN [rest EXCEPT !.terrain = <<v>> \o @] ELSE rest

terrain_fetched(points, i, g, d, mode) ==
    IF ~g.ret.ok THEN [ok |-> FALSE, err |-> g.ret, tiles |-> g.tiles]
    ELSE terrain_cons(Tile_get_unchecked(g.ret.val.tile, points[i]),
                      terrain_loop(points, i + 1, g.ret.val.tile, g.tiles, d, mode))

terrain_here(points, i, cur, m, d, mode, here) ==
    IF here.some THEN terrain_cons(here.val, terrain_loop(points, i + 1, cur, m, d, mode))
    ELSE terrain_fetched(points, i, Tiles_get(m, d, mode, points[i]), d, mode)

terrain_loop(points, i, cur, m, d, mode) ==
    IF i > Len(points) THEN [ok |-> TRUE, terrain |-> <<>>, tiles |-> m]
    ELSE terrain_here(points, i, cur, m, d, mode, Tile_get_point(cur, points[i]))

\* ProfileBuilder::build on the store (m, d, mode): the value returned and
\* the store's map afterwards.  arith is the arithmetic of the altitude sums;
\* curve gives the height the earth-curve loop stores at each index (the
\* value of height_m.as_()).
build_great_circle_short(b) ==
    Tail(collect(HaversineIter_new(b.start.val, b.max_step_m.val, b.end.val)))

build_great_circle(b) ==
    collect(HaversineIter_new(b.start.val, b.max_step_m.val, b.end.val))

build_missing_misnamed(b) ==
    IF ~b.start.some THEN Some("end")
    ELSE IF ~b.max_step_m.some THEN Some("max_step")
    ELSE IF ~b.end.some THEN Some("start")
    ELSE None

build_missing(b) ==
    IF ~b.start.some THEN Some("start")
    ELSE IF ~b.max_step_m.some THEN Some("max_step")
    ELSE IF ~b.end.some THEN Some("end")
    ELSE None

\* build from the line-of-sight sums on: y_start and y_end are the sums the
\* los vector is interpolated between.
build_los(distance_m, great_circle, terrain, y_start, y_end, tiles_after) ==
    IF ~y_start.ok THEN [ret |-> y_start, tiles |-> tiles_after]
    ELSE IF ~y_end.ok THEN [ret |-> y_end, tiles |-> tiles_after]
    ELSE [ret |-> Ok([distance_m |-> distance_m,
                      step_size_m |-> FDiv(Frac(distance_m, 1), Frac(Len(great_circle) - 1, 1)),
                      great_circle |-> great_circle,
                      terrain |-> terrain,
                      los |-> linspace(y_start.val, y_end.val, Len(terrain))]),
          tiles |-> tiles_after]

\* build from the earth-curve block on: terrain is what the terrain loop
\* collected.
build_earth_curve(b, distance_m, great_circle, terrain, tiles_after, arith, curve) ==
    IF ~b.earth_curve
    THEN build_los(distance_m, great_circle, terrain,
                   Add(terrain[1], b.start_alt_m, arith),
                   Add(terrain[Len(terrain)], b.end_alt_m, arith), tiles_after)
    ELSE IF ~Add(terrain[1], b.start_alt_m, arith).ok
    THEN [ret |-> Add(terrain[1], b.start_alt_m, arith), tiles |-> tiles_after]
    ELSE IF ~Add(terrain[Len(terrain)], b.end_alt_m, arith).ok
    THEN [ret |-> Add(terrain[Len(terrain)], b.end_alt_m, arith), tiles |-> tiles_after]
    ELSE build_los(distance_m, great_circle, [i \in 1..Len(terrain) |-> curve[i]],
                   Add(curve[1], b.start_alt_m, arith),
                   Add(curve[Len(terrain)], b.end_alt_m, arith), tiles_after)

\* build from the end of the terrain loop on.
build_walked(b, great_circle, walk, arith, curve) ==
    IF ~walk.ok THEN [ret |-> walk.err, tiles |-> walk.tiles]
    ELSE build_earth_curve(b, get_params(b.start.val, b.end.val).d, great_circle,
                           walk.terrain, walk.tiles, arith, curve)

\* build from the first tile on: first is what tiles.get(start) returned.
build_terrain(b, great_circle, first, d, mode, arith, curve) ==
    IF ~first.ret.ok THEN [ret |-> first.ret, tiles |-> first.tiles]
    ELSE build_walked(b, great_circle,
                      terrain_loop(great_circle, 1, first.ret.val.tile, first.tiles, d, mode),
                      arith, curve)

ProfileBuilder_build(b, m, d, mode, arith, curve) ==
    IF build_missing(b).some THEN [ret |-> Builder(build_missing(b).val), tiles |-> m]
    ELSE build_terrain(b, build_great_circle(b), Tiles_get(m, d, mode, b.start.val),
                       d, mode, arith, curve)

\* freq_to_wavelen and fresnel.
freq_to_wavelen(freq_hz) == FDiv(Frac(C, 1), Frac(freq_hz, 1))

fresnel(zone, wavelen, d_m, total_d_m) ==
    FSqrt(FDiv(FMul(FMul(FMul(zone, wavelen), d_m), FSub(total_d_m, d_m)), total_d_m))

\* zip(..).map(..).collect(): as long as the shorter of the two.
ZipMin(a, b) == IF a <= b THEN a ELSE b

\* The lower edge of the first Fresnel zone along the line of sight.
lower_fresnel_zone(wavelen, distances_m, los_elev_m) ==
    [i \in 1..ZipMin(Len(distances_m), Len(los_elev_m)) |->
        [los |-> los_elev_m[i],
         minus |-> fresnel(Frac(1, 1), wavelen, distances_m[i], distances_m[Len(distances_m)])]]

\* Point2PointBuilder::build from the vectors of the profile on.
Point2Point_report(distances_m, great_circle, terrain_elev_m, los_elev_m, fresnel_zone_m, tiles_after) ==
    IF ~(/\ Len(distances_m) = Len(great_circle)
         /\ Len(great_circle) = Len(terrain_elev_m)
         /\ Len(terrain_elev_m) = Len(los_elev_m)
         /\ Len(los_elev_m) = Len(fresnel_zone_m))
    THEN [ret |-> Panic("all vectors in report must have the same length"),
          tiles |-> tiles_after]
    ELSE [ret |-> Ok([distances_m |-> distances_m,
                      great_circle |-> great_circle,
                      terrain_elev_m |-> terrain_elev_m,
                      los_elev_m |-> los_elev_m,
                      lower_fresnel_zone_m |-> fresnel_zone_m]),
          tiles |-> tiles_after]

\* distances_m of a profile of n samples over distance_m metres.
profile_distances(distance_m, n) ==
    [i \in 1..n |-> IF n = 1 THEN NaN ELSE Reduced((i - 1) * distance_m, n - 1)]

\* Point2PointBuilder::build from the profile built (p) on.
Point2Point_profiled(freq_hz, p, distances_m) ==
    IF ~p.ret.ok THEN p
    ELSE Point2Point_report(distances_m, p.ret.val.great_circle, p.ret.val.terrain,
                            p.ret.val.los,
                            lower_fresnel_zone(freq_to_wavelen(freq_hz), distances_m,
                                               p.ret.val.los),
                            p.tiles)

Point2Point_distances(freq_hz, p) ==
    Point2Point_profiled(freq_hz, p,
        IF p.ret.ok
        THEN profile_distances(p.ret.val.distance_m, Len(p.ret.val.great_circle))
        ELSE <<>>)

\* Point2PointBuilder::build.
Point2PointBuilder_build(b, m, d, mode, curve) ==
    IF ~b.freq_hz.some THEN [ret |-> Builder("freq"), tiles |-> m]
    ELSE Point2Point_distances(b.freq_hz.val, ProfileBuilder_build(b, m, d, mode, "float", curve))

(***************************************************************************)
(* Profile specification: one builder (a ProfileBuilder or a               *)
(* Point2PointBuilder), its setters, and build on one tile store.  The     *)
(* path runs along the meridian of 72 W around the parallel of 44 N, where *)
(* the cells N43W072 and N44W072 meet.                                     *)
(***************************************************************************)
ProfileStart == [x |-> -72 * UnitsPerDeg, y |-> 44 * UnitsPerDeg - 1]
ProfileCorners == {[x |-> -72, y |-> 43], [x |-> -72, y |-> 44]}
ProfileNames == {file_name(sw) : sw \in ProfileCorners}
                    \cup {to_lowercase(file_name(sw)) : sw \in ProfileCorners}

\* A directory with the given files for N43W072 and N44W072.
ProfileDir(f43, f44) ==
    [n \in ProfileNames |->
        IF n = file_name([x |-> -72, y |-> 43]) THEN f43
        ELSE IF n = file_name([x |-> -72, y |-> 44]) THEN f44
        ELSE NoFile]

OtherValidFile == File(FileBytes(2, Dim3 * Dim3), TRUE)

ProfileDirs ==
    { ProfileDir(NoFile, ValidFile),
      ProfileDir(OtherValidFile, ValidFile),
      ProfileDir(OtherValidFile, ShortFile),
      ProfileDir(DeniedFile, ValidFile) }

\* Altitudes above ground, and the heights the earth-curve loop can leave
\* in the terrain vector (two of its possible outcomes).
Alts == {0, 2, I16_MAX}
Curves == { [i \in 1..(MaxArc + 1) |-> 40 - i],
            [i \in 1..(MaxArc + 1) |-> IF i = 1 THEN I16_MAX ELSE -i] }

\* The end points: northward along the meridian, up to MaxArc units away, the
\* farthest ones lying beyond the northern edge of the tile of N43W072.
ProfileEnds == {[x |-> ProfileStart.x, y |-> ProfileStart.y + d] : d \in 0..MaxArc}

\* Profile::builder and Point2Point::builder.
Profile_builder ==
    [freq_hz |-> None, start |-> None, max_step_m |-> None, end |-> None,
     start_alt_m |-> 0, end_alt_m |-> 0, earth_curve |-> FALSE]

ProfileInit ==
    /\ tile = NoTile
    /\ disk \in ProfileDirs
    /\ tile_mode \in {"InMem", "MemMap"}
    /\ tiles = <<>>
    /\ lock = <<>> /\ shardOf = <<>> /\ pc = <<>> /\ arg = <<>>
    /\ path = <<>> /\ result = <<>> /\ budget = <<>>
    /\ \E k \in {<<"Profile", "i16_checked">>, <<"Profile", "i16_wrapping">>,
                 <<"Point2Point", "float">>} :
          call = [fn |-> "builder", kind |-> k[1], arith |-> k[2], b |-> Profile_builder,
                  ret |-> None, tiles_before |-> <<>>]

BuilderUnchanged == UNCHANGED <<storeVars, tile>>

SetFreq ==
    /\ call.fn = "builder" /\ call.kind = "Point2Point" /\ ~call.b.freq_hz.some
    /\ call' = [call EXCEPT !.b.freq_hz = Some(C)]
    /\ BuilderUnchanged

SetStart ==
    /\ call.fn = "builder" /\ ~call.b.start.some
    /\ call' = [call EXCEPT !.b.start = Some(ProfileStart)]
    /\ BuilderUnchanged

SetStartAlt ==
    /\ call.fn = "builder" /\ call.b.start_alt_m = 0
    /\ \E a \in Alts \ {0} : call' = [call EXCEPT !.b.start_alt_m = a]
    /\ BuilderUnchanged

SetMaxStep ==
    /\ call.fn = "builder" /\ ~call.b.max_step_m.some
    /\ \E m \in 1..MaxStep : call' = [call EXCEPT !.b.max_step_m = Some(m)]
    /\ BuilderUnchanged

SetEnd ==
    /\ call.fn = "builder" /\ ~call.b.end.some
    /\ \E e \in ProfileEnds : call' = [call EXCEPT !.b.end = Some(e)]
    /\ BuilderUnchanged

SetEndAlt ==
    /\ call.fn = "builder" /\ call.b.end_alt_m = 0
    /\ \E a \in Alts \ {0} : call' = [call EXCEPT !.b.end_alt_m = a]
    /\ BuilderUnchanged

SetEarthCurve ==
    /\ call.fn = "builder" /\ ~call.b.earth_curve
    /\ call' = [call EXCEPT !.b.earth_curve = TRUE]
    /\ BuilderUnchanged

\* build has run on the store and is about to return r.ret.
BuildReturns(r) ==
    /\ call' = [call EXCEPT !.fn = "build", !.ret = r.ret, !.tiles_before = tiles]
    /\ tiles' = r.tiles

Build ==
    /\ call.fn = "builder"
    /\ \E curve \in Curves :
          BuildReturns(IF call.kind = "Profile"
                       THEN ProfileBuilder_build(call.b, tiles, disk, tile_mode, call.arith, curve)
                       ELSE Point2PointBuilder_build(call.b, tiles, disk, tile_mode, curve))
    /\ UNCHANGED <<disk, tile_mode, lock, shardOf, pc, arg, path, result, budget, tile>>

\* build has returned: a new builder is made, to be used on the same store.
BuildReturn ==
    /\ call.fn = "build"
    /\ ~IsPanic(call.ret)
    /\ call' = [call EXCEPT !.fn = "builder", !.b = Profile_builder, !.ret = None,
                            !.tiles_before = <<>>]
    /\ BuilderUnchanged

ProfileNext ==
    \/ SetFreq
    \/ SetStart
    \/ SetStartAlt
    \/ SetMaxStep
    \/ SetEnd
    \/ SetEndAlt
    \/ SetEarthCurve
    \/ Build
    \/ BuildReturn

SpecProfile == ProfileInit /\ [][ProfileNext]_vars

(***************************************************************************)
(* Claims about the profile builders.                                      *)
(***************************************************************************)
Built == call.fn = "build" /\ call.ret.ok

\* The arc length of the builder's path, and ceil(arc / max_step).
BuilderArc(b) == Abs(b.end.val.x - b.start.val.x) + Abs(b.end.val.y - b.start.val.y)
CeilOfQuotient(a, s) == IF a = 0 THEN 0 ELSE CHOOSE n \in 1..a : n * s >= a /\ (n - 1) * s < a

\* The lengths of the output vectors of a built profile.
OutputLengths(kind, p) ==
    IF kind = "Profile"
    THEN {Len(p.great_circle), Len(p.terrain), Len(p.los)}
    ELSE {Len(p.great_circle), Len(p.terrain_elev_m), Len(p.los_elev_m),
          Len(p.distances_m), Len(p.lower_fresnel_zone_m)}

\* C13: the output vectors of every successful build have one length, and
\* it is ceil(arc_length / max_step) + 1.
C13_OutputVectorsOfOneLength ==
    Built =>
        OutputLengths(call.kind, call.ret.val)
            = {CeilOfQuotient(BuilderArc(call.b), call.b.max_step_m.val) + 1}

\* A Point2Point of five samples or more built across the boundary of the
\* two cells.
C13_Witness ==
    /\ Built
    /\ call.kind = "Point2Point"
    /\ Len(call.ret.val.distances_m) >= 5
    /\ DOMAIN tiles = ProfileCorners

\* C14: every Profile and Point2Point returned by build has two samples or
\* more, also when start and end are the same point.
C14_AtLeastTwoSamples ==
    Built => \A n \in OutputLengths(call.kind, call.ret.val) : n >= 2

\* The terrain and line-of-sight vectors of a built profile.
TerrainOf(kind, p) == IF kind = "Profile" THEN p.terrain ELSE p.terrain_elev_m
LosOf(kind, p) == IF kind = "Profile" THEN p.los ELSE p.los_elev_m

\* C15: in a built profile of N >= 2 samples los[i] is
\* a + i (b - a) / (N - 1), a and b being the integer sums
\* terrain[0] + start_alt and terrain[N-1] + end_alt, for every terrain and
\* altitude value: the sums neither wrap around nor abort the build.
C15_LosInterpolatesExactSums ==
    call.fn = "build" =>
        /\ ~IsPanic(call.ret)
        /\ (call.ret.ok /\ Len(LosOf(call.kind, call.ret.val)) >= 2) =>
              LET terrain == TerrainOf(call.kind, call.ret.val)
                  los == LosOf(call.kind, call.ret.val)
                  N == Len(los)
                  a == terrain[1] + call.b.start_alt_m
                  b == terrain[N] + call.b.end_alt_m
              IN  \A i \in 1..N : los[i] = Frac(a * (N - 1) + (i - 1) * (b - a), N - 1)

\* The required fields of the builder that were never set.
Unset(kind, b) ==
    {f \in {"start", "max_step", "end"} :
        \/ f = "start" /\ ~b.start.some
        \/ f = "max_step" /\ ~b.max_step_m.some
        \/ f = "end" /\ ~b.end.some}
    \cup (IF kind = "Point2Point" /\ ~b.freq_hz.some THEN {"freq"} ELSE {})

\* The errors the tile store returns for the cells of the path.
StoreErrors ==
    {r \in {closure(load_tile(disk, tile_mode, tile_path(disk, sw)), sw) : sw \in ProfileCorners} :
        ~r.ok}

MaxRaw == 2

\* Elevation::new.
Elevation_new(raw) == [min |-> raw, max |-> raw, sum |-> raw, n |-> 1]

\* a - b on i16: an overflowing difference panics when the build checks
\* overflow and wraps otherwise.
SubI16(a, b, arith) ==
    IF I16_MIN <= a - b /\ a - b <= I16_MAX THEN Ok(a - b)
    ELSE IF arith = "i16_checked" THEN Panic("attempt to subtract with overflow")
    ELSE Ok(WrapI16(a - b))

MinOf(a, b) == IF a <= b THEN a ELSE b
MaxOf(a, b) == IF a >= b THEN a ELSE b

\* The loop of CloseEnoughCompactor::compact over the children from i on:
\* a child whose min or max is i16::MIN is skipped.
RECURSIVE close_enough_fold_all(_, _, _)
close_enough_fold_all(items, i, acc) ==
    IF i > Len(items) THEN acc
    ELSE close_enough_fold_all(items, i + 1,
            [min |-> MinOf(acc.min, items[i].min), sum |-> acc.sum + items[i].sum,
             max |-> MaxOf(acc.max, items[i].max), n |-> acc.n + items[i].n])

RECURSIVE close_enough_fold(_, _, _)
close_enough_fold(items, i, acc) ==
    IF i > Len(items) THEN acc
    ELSE IF I16_MIN \in {items[i].min, items[i].max}
    THEN close_enough_fold(items, i + 1, acc)
    ELSE close_enough_fold(items, i + 1,
            [min |-> MinOf(acc.min, items[i].min), sum |-> acc.sum + items[i].sum,
             max |-> MaxOf(acc.max, items[i].max), n |-> acc.n + items[i].n])

\* The end of compact: error is n_max - n_min.
close_enough_decide(acc, error, tolerance) ==
    IF ~error.ok THEN error
    ELSE IF ~(error.val >= 0) THEN Panic("error can't be negative")
    ELSE IF error.val <= tolerance THEN Some(acc)
    ELSE None

close_enough_folded(acc, tolerance, arith) ==
    close_enough_decide(acc, SubI16(acc.max, acc.min, arith), tolerance)

\* CloseEnoughCompactor::compact.
CloseEnoughCompactor_compact(tolerance, children, arith) ==
    IF \A i \in 1..7 : children[i].some
    THEN close_enough_folded(
            close_enough_fold([i \in 1..7 |-> children[i].val], 1,
                              [min |-> I16_MAX, sum |-> 0, max |-> I16_MIN, n |-> 0]),
            tolerance, arith)
    ELSE None

(***************************************************************************)
(* Compactor specification: one call of CloseEnoughCompactor::compact on   *)
(* seven children.                                                         *)
(***************************************************************************)
\* What a child can be: absent, a void, an extreme, or an ordinary sample.
CompactChildren ==
    {None} \cup {Some(Elevation_new(raw)) : raw \in {I16_MIN, -1, I16_MAX} \cup 0..MaxRaw}

\* The children after the second are ordinary samples.
OrdinaryChildren == {Some(Elevation_new(raw)) : raw \in {0, MaxRaw}}

Tolerances == {0, 1, MaxRaw, I16_MAX}

CompactInit ==
    /\ StoreUnused
    /\ disk = <<>>
    /\ tile = NoTile
    /\ \E c1 \in CompactChildren, c2 \in CompactChildren :
       \E rest \in [3..7 -> OrdinaryChildren] :
       \E t \in Tolerances, a \in {"i16_checked", "i16_wrapping"} :
          call = [fn |-> "new", tolerance |-> t, arith |-> a,
                  children |-> [i \in 1..7 |-> IF i = 1 THEN c1 ELSE IF i = 2 THEN c2 ELSE rest[i]],
                  ret |-> None]

CompactNext ==
    /\ call.fn = "new"
    /\ call' = [call EXCEPT !.fn = "compact",
                            !.ret = CloseEnoughCompactor_compact(call.tolerance, call.children,
                                                                 call.arith)]
    /\ UNCHANGED <<storeVars, tile>>

SpecCompact == CompactInit /\ [][CompactNext]_vars

\* The summary of all the children given.
AllChildren(children) ==
    close_enough_fold_all([i \in 1..7 |-> children[i].val], 1,
                          [min |-> I16_MAX, sum |-> 0, max |-> I16_MIN, n |-> 0])

\* C21: compact collapses seven children only when the largest max minus
\* the smallest min over all seven is within the tolerance, the leaf then
\* carries that min and max and the sums of sum and n over all seven; it
\* returns None when a child is absent or the spread exceeds the tolerance;
\* this for all 16-bit child values, so compact never aborts.
C21_CloseEnoughWithinTolerance ==
    call.fn = "compact" =>
        /\ ~IsPanic(call.ret)
        /\ IF \E i \in 1..7 : ~call.children[i].some THEN call.ret = None
           ELSE LET all == AllChildren(call.children)
                IN  /\ all.max - all.min > call.tolerance => call.ret = None
                    /\ call.ret # None =>
                          /\ all.max - all.min <= call.tolerance
                          /\ call.ret = Some(all)

(***************************************************************************)
(* The reduction compactor in a HexTreeMap.                                *)
(*                                                                         *)
(* A cell is the sequence of its H3 digits below a cell of resolution      *)
(* target_resolution - 1: <<>> is that cell, <<d>> its children (the       *)
(* target resolution), and a cell of the source resolution has             *)
(* source_res - target_res + 1 digits.  A tree is the function from its    *)
(* leaf cells to their values.  The tree itself is the hextree crate's     *)
(* HexTreeMap: insert makes the cell a leaf unless an ancestor is one, and *)
(* then offers the children of each ancestor to the compactor.            *)
(***************************************************************************)
\* Largest source_res - target_res of a tree.
MaxDepth == 7

\* a + b on i32: an overflowing sum panics when the build checks overflow
\* and wraps otherwise.  a and b are i32 values; no intermediate value
\* leaves the i32 range.
AddI32(a, b, arith) ==
    IF b > 0 /\ a > I32_MAX - b
    THEN IF arith = "checked" THEN Panic("attempt to add with overflow")
         ELSE Ok((a - I32_MAX - 1) + (b - I32_MAX - 1))
    ELSE IF b < 0 /\ a < I32_MIN - b
    THEN IF arith = "checked" THEN Panic("attempt to add with overflow")
         ELSE Ok((a + I32_MAX + 1) + (b + I32_MAX + 1))
    ELSE Ok(a + b)

\* Elevation::concat from item i on; sum and n are Ok or the panic of an
\* overflowing addition.
RECURSIVE concat_loop(_, _, _, _, _, _, _)
concat_step(items, i, min, sum, max, n, arith) ==
    IF ~sum.ok THEN sum
    ELSE IF ~n.ok THEN n
    ELSE concat_loop(items, i, min, sum.val, max, n.val, arith)

concat_loop(items, i, min, sum, max, n, arith) ==
    IF i > Len(items) THEN Ok([min |-> min, max |-> max, sum |-> sum, n |-> n])
    ELSE concat_step(items, i + 1, MinOf(min, items[i].min),
                     AddI32(sum, items[i].sum, arith),
                     MaxOf(max, items[i].max),
                     AddI32(n, items[i].n, arith), arith)

Elevation_concat(items, arith) == concat_loop(items, 1, I16_MAX, 0, I16_MIN, 0, arith)

\* Some(concat), or the panic of concat.
SomeOf(r) == IF r.ok THEN Ok(Some(r.val)) ELSE r

\* ReductionCompactor::compact of the cell of resolution res: Ok(None),
\* Ok(Some(the summary)), or the panic of concat.
ReductionCompactor_compact(target_resolution, res, children, arith) ==
    IF res < target_resolution THEN Ok(None)
    ELSE IF \A i \in 1..7 : children[i].some
    THEN SomeOf(Elevation_concat([i \in 1..7 |-> children[i].val], arith))
    ELSE Ok(None)

\* Node::coalesce of the node of cell p: its children that are leaves are
\* offered to the compactor, and the node becomes a leaf if it gives a value.
Node_children(tree, p) ==
    [i \in 1..7 |-> IF Append(p, i - 1) \in DOMAIN tree THEN Some(tree[Append(p, i - 1)])
                    ELSE None]

Node_coalesced(tree, p, r) ==
    IF ~r.ok THEN r
    ELSE IF ~r.val.some THEN Ok(tree)
    ELSE Ok([c \in ((DOMAIN tree) \ {Append(p, d) : d \in 0..6}) \cup {p} |->
                IF c = p THEN r.val.val ELSE tree[c]])

\* EqCompactor::compact of the hextree crate: seven equal children become
\* their value.
EqCompactor_compact(children) ==
    IF \A i \in 1..7 : children[i].some /\ children[i] = children[1]
    THEN Ok(children[1])
    ELSE Ok(None)

\* Compactor::compact of the tree's compactor; res0 is the resolution of
\* the cell <<>>.
Compactor_compact(compactor, res, children) ==
    IF compactor.kind = "Eq" THEN EqCompactor_compact(children)
    ELSE ReductionCompactor_compact(compactor.target_resolution, res, children, compactor.arith)

Node_coalesce(tree, p, compactor, res0) ==
    Node_coalesced(tree, p, Compactor_compact(compactor, res0 + Len(p), Node_children(tree, p)))

\* The coalescing that follows an insert, from the ancestor of len digits up
\* to the root.
RECURSIVE coalesce_up(_, _, _, _, _)
coalesce_next(r, cell, len, compactor, res0) ==
    IF ~r.ok THEN r ELSE coalesce_up(r.val, cell, len, compactor, res0)

coalesce_up(tree, cell, len, compactor, res0) ==
    IF len < 0 THEN Ok(tree)
    ELSE coalesce_next(Node_coalesce(tree, SubSeq(cell, 1, len), compactor, res0),
                       cell, len - 1, compactor, res0)

\* An ancestor of the cell is a leaf of the tree.
BelowLeaf(tree, cell) == \E len \in 0..(Len(cell) - 1) : SubSeq(cell, 1, len) \in DOMAIN tree

\* HexTreeMap::insert: nothing changes below a leaf; otherwise the cell
\* becomes a leaf and its ancestors are coalesced.
HexTreeMap_insert(tree, cell, value, compactor, res0) ==
    IF BelowLeaf(tree, cell) THEN Ok(tree)
    ELSE coalesce_up([c \in (DOMAIN tree) \cup {cell} |-> IF c = cell THEN value ELSE tree[c]],
                     cell, Len(cell) - 1, compactor, res0)

(***************************************************************************)
(* Reduction specification: a tree under the reduction compactor, filled   *)
(* with single-sample summaries at the source resolution.  The inserts     *)
(* that filled the tree under all but the last parent cell have been made: *)
(* the tree starts with the leaves those inserts leave, every sample being *)
(* PrefillSample.  The seven cells of the last parent are inserted here.      *)
(***************************************************************************)
InsertRaws == {-2, 3001}

\* The sample of every cell inserted before, and 7^j.
PrefillSample == Elevation_new(3000)
Pow7(j) == 7 ^ j

\* An i32 holds the sum of a complete subtree of j levels of that sample.
SummaryFits(j) == Pow7(j) <= I32_MAX \div PrefillSample.sum

\* The path of sixes of len digits, and the last parent below depth k.
Sixes(len) == [i \in 1..len |-> 6]

\* The summary of a complete subtree of j levels of that sample.
Prefilled(j) ==
    [min |-> PrefillSample.min, max |-> PrefillSample.max,
     sum |-> Pow7(j) * PrefillSample.sum, n |-> Pow7(j)]

\* The leaves beside the path of sixes: at i digits, the six siblings of
\* Sixes(i), each a complete subtree.  siblings: also the six siblings of
\* the cell of the target resolution.
PrefilledCells(k, siblings) ==
    {Append(Sixes(i - 1), d) : i \in (IF siblings THEN 1 ELSE 2)..k, d \in 0..5}

PrefilledTree(k, siblings) ==
    [c \in PrefilledCells(k, siblings) |-> Prefilled(k + 1 - Len(c))]

ReduceInit ==
    /\ StoreUnused
    /\ disk = <<>>
    /\ tile = NoTile
    /\ \E k \in 1..MaxDepth, siblings \in BOOLEAN, a \in {"checked", "wrapping"} :
          /\ siblings => SummaryFits(k)
          /\ call = [fn |-> "new", target_resolution |-> 1, source_resolution |-> 1 + k,
                     arith |-> a, tree |-> PrefilledTree(k, siblings),
                     raw |-> <<>>, ret |-> Ok(<<>>)]

\* insert has run: r is what the tree became, or the panic.  raw records
\* the sample each cell of the last parent holds.
ReduceInserted(cell, raw, r) ==
    call' = [call EXCEPT
                !.fn = "insert",
                !.raw = IF BelowLeaf(call.tree, cell) THEN @
                        ELSE [c \in (DOMAIN @) \cup {cell} |-> IF c = cell THEN raw ELSE @[c]],
                !.ret = r,
                !.tree = IF r.ok THEN r.val ELSE @]

\* hextree.insert(cell, Elevation::new(raw)) for a cell of the last parent.
ReduceInsert ==
    /\ call.fn \in {"new", "insert"}
    /\ call.ret.ok
    /\ \E d \in 0..6, raw \in InsertRaws :
          ReduceInserted(Append(Sixes(call.source_resolution - call.target_resolution), d), raw,
                         HexTreeMap_insert(call.tree,
                             Append(Sixes(call.source_resolution - call.target_resolution), d),
                             Elevation_new(raw),
                             [kind |-> "Reduction", target_resolution |-> call.target_resolution,
                              arith |-> call.arith],
                             call.target_resolution - 1))
    /\ UNCHANGED <<storeVars, tile>>

SpecReduce == ReduceInit /\ [][ReduceInsert]_vars

\* The leaves of the target resolution that the inserts made, and the sum of
\* the samples recorded in raw.
RECURSIVE SumOver(_, _)
SumOver(f, S) == IF S = {} THEN 0 ELSE LET c == CHOOSE c \in S : TRUE IN f[c] + SumOver(f, S \ {c})

Least(S) == CHOOSE m \in S : \A x \in S : m <= x
Greatest(S) == CHOOSE m \in S : \A x \in S : m >= x

\* The samples below the cell of the target resolution, k levels down.
SamplesBelowTarget(k) == {call.raw[c] : c \in DOMAIN call.raw} \cup (IF k > 1 THEN {PrefillSample.min} ELSE {})

\* C22: after any sequence of inserts of single samples at the source
\* resolution, a leaf of the target resolution has n = 7^(source_res -
\* target_res), the sum and the extremes of its source-resolution
\* descendants and min <= sum / n <= max; no leaf is coarser than the target
\* resolution, and no insert aborts.
C22_ReducedLeafSummarisesDescendants ==
    call.fn = "insert" =>
        /\ call.ret.ok
        /\ <<>> \notin DOMAIN call.tree
        /\ <<6>> \in DOMAIN call.tree =>
              LET k == call.source_resolution - call.target_resolution
                  leaf == call.tree[<<6>>]
              IN  /\ SummaryFits(k)
                  /\ leaf.n = Pow7(k)
                  /\ leaf.sum = (Pow7(k) - 7) * PrefillSample.sum + SumOver(call.raw, DOMAIN call.raw)
                  /\ leaf.min = Least(SamplesBelowTarget(k))
                  /\ leaf.max = Greatest(SamplesBelowTarget(k))
                  /\ leaf.min <= TruncDiv(leaf.sum, leaf.n)
                  /\ TruncDiv(leaf.sum, leaf.n) <= leaf.max

(***************************************************************************)
(* hexit/src/combine.rs: Combine.                                          *)
(*                                                                         *)
(* The tree is a HexTreeMap<i16, EqCompactor>.  A tessellation file is the *)
(* sequence of samples its reader decodes, each an elevation and the cells *)
(* it covers; the disktree file is the sequence of (cell, value) entries   *)
(* that iterating it yields.  No mask is given.                            *)
(***************************************************************************)
\* Largest number of input files of one Combine.
MaxInputs == 3

\* HexTreeMap::get: the leaf that is the cell or an ancestor of it.
HexTreeMap_get(tree, cell) ==
    IF \E len \in 0..Len(cell) : SubSeq(cell, 1, len) \in DOMAIN tree
    THEN LET len == CHOOSE len \in 0..Len(cell) : SubSeq(cell, 1, len) \in DOMAIN tree
         IN  Some([cell |-> SubSeq(cell, 1, len), value |-> tree[SubSeq(cell, 1, len)]])
    ELSE None

\* HexTreeMap::len: the number of leaves.
HexTreeMap_len(tree) == Cardinality(DOMAIN tree)

\* The inner loop of read_tessellation: the cells of one sample from i on.
RECURSIVE insert_cells(_, _, _, _)
insert_cells(tree, elevation, cells, i) ==
    IF i > Len(cells) THEN tree
    ELSE insert_cells(HexTreeMap_insert(tree, cells[i], elevation, [kind |-> "Eq"], 0).val,
                      elevation, cells, i + 1)

\* Combine::read_tessellation: the samples of one file from i on.
RECURSIVE read_tessellation(_, _, _)
read_tessellation(samples, i, tree) ==
    IF i > Len(samples) THEN tree
    ELSE read_tessellation(samples, i + 1,
                           insert_cells(tree, samples[i].elevation, samples[i].cells, 1))

\* The loop of Combine::run over the input files from i on.
RECURSIVE read_inputs(_, _, _)
read_inputs(input, i, tree) ==
    IF i > Len(input) THEN tree
    ELSE read_inputs(input, i + 1, read_tessellation(input[i], 1, tree))

\* hextree.to_disktree: the leaves below p, in the order of their digits,
\* depth levels down.
RECURSIVE disktree_entries(_, _, _)
RECURSIVE disktree_children(_, _, _, _)
disktree_children(tree, p, d, depth) ==
    IF d > 6 THEN <<>>
    ELSE disktree_entries(tree, Append(p, d), depth) \o disktree_children(tree, p, d + 1, depth)

disktree_entries(tree, p, depth) ==
    IF p \in DOMAIN tree THEN <<[cell |-> p, value |-> tree[p]]>>
    ELSE IF depth = 0 THEN <<>>
    ELSE disktree_children(tree, p, 0, depth - 1)

\* Combine::write_disktree: the file written.
write_disktree(hextree) == disktree_entries(hextree, <<>>, 1)

\* Combine::verify_disktree without the final count.
verify_disktree_uncounted(hextree, out) ==
    IF \E i \in 1..Len(out) : Some(out[i]) # HexTreeMap_get(hextree, out[i].cell)
    THEN Panic("assertion left == right failed")
    ELSE Ok(<<>>)

\* Combine::verify_disktree on the file out.
verify_disktree(hextree, out) ==
    IF \E i \in 1..Len(out) : Some(out[i]) # HexTreeMap_get(hextree, out[i].cell)
    THEN Panic("assertion left == right failed")
    ELSE IF HexTreeMap_len(hextree) # Len(out)
    THEN Panic("assertion left == right failed")
    ELSE Ok(<<>>)

(***************************************************************************)
(* Combine specification: one run of Combine on a list of tessellation     *)
(* files, the output file being open to one change by another program      *)
(* between its writing and its verification.                               *)
(***************************************************************************)
\* The cells are the seven children of one cell.
Children7 == [i \in 1..7 |-> <<i - 1>>]

Tessellations ==
    { <<[elevation |-> 1, cells |-> Children7]>>,
      <<[elevation |-> 2, cells |-> <<Children7[1]>>]>>,
      <<[elevation |-> 1, cells |-> <<Children7[1]>>], [elevation |-> 1, cells |-> <<Children7[2]>>]>>,
      <<[elevation |-> 1, cells |-> Tail(Children7)]>> }

\* The lists of pairwise distinct files of n files at most.
RECURSIVE InputLists(_)
InputLists(n) ==
    IF n = 0 THEN {<<>>}
    ELSE InputLists(n - 1) \cup
         {Append(l, f) : l \in {l \in InputLists(n - 1) : Len(l) = n - 1},
                         f \in Tessellations}

DistinctFiles(l) == \A i, j \in 1..Len(l) : i # j => l[i] # l[j]

\* What another program can leave at the output path.
Alterations(out) ==
    IF out = <<>> THEN {}
    ELSE { SubSeq(out, 1, Len(out) - 1),
           [out EXCEPT ![1].value = @ + 1],
           Append(out, out[1]) }

CombineInit ==
    /\ StoreUnused
    /\ disk = <<>>
    /\ tile = NoTile
    /\ \E l \in InputLists(MaxInputs) :
          /\ l # <<>> /\ DistinctFiles(l)
          /\ call = [fn |-> "run", input |-> l, next |-> 1, hextree |-> <<>>,
                     out |-> <<>>, altered |-> FALSE, ret |-> None]

\* One pass of the loop of Combine::run: the next input file is read.
ReadTessellation ==
    /\ call.fn \in {"run", "read_tessellation"}
    /\ call.next <= Len(call.input)
    /\ call' = [call EXCEPT !.fn = "read_tessellation",
                            !.hextree = read_tessellation(call.input[call.next], 1, @),
                            !.next = @ + 1]
    /\ UNCHANGED <<storeVars, tile>>

WriteDisktree ==
    /\ call.fn = "read_tessellation"
    /\ call.next > Len(call.input)
    /\ call' = [call EXCEPT !.fn = "write_disktree", !.out = write_disktree(call.hextree)]
    /\ UNCHANGED <<storeVars, tile>>

\* Another program changes the file at the output path.
OutChange ==
    /\ call.fn = "write_disktree"
    /\ ~call.altered
    /\ \E o \in Alterations(call.out) : call' = [call EXCEPT !.out = o, !.altered = TRUE]
    /\ UNCHANGED <<storeVars, tile>>

VerifyDisktree ==
    /\ call.fn = "write_disktree"
    /\ call' = [call EXCEPT !.fn = "verify_disktree",
                            !.ret = Some(verify_disktree(call.hextree, call.out))]
    /\ UNCHANGED <<storeVars, tile>>

CombineNext ==
    \/ ReadTessellation
    \/ WriteDisktree
    \/ OutChange
    \/ VerifyDisktree

SpecCombine == CombineInit /\ [][CombineNext]_vars

\* The orders in which the files of l can be given.
Orders(l) ==
    {m \in InputLists(Len(l)) : Len(m) = Len(l) /\ {m[i] : i \in 1..Len(m)} = {l[i] : i \in 1..Len(l)}}

\* C23: Combine builds the same tree whatever the order in which the input
\* files are inserted, also when a cell occurs in several of them.
C23_CombineOrderIndependent ==
    call.fn = "write_disktree" =>
        \A m \in Orders(call.input) : read_inputs(m, 1, <<>>) = call.hextree

\* C24: Combine::run returns Ok only if iterating the disktree yields
\* hextree.len() entries, each equal to hextree.get of its cell; otherwise
\* the run aborts.
RoundTrip ==
    /\ Len(call.out) = HexTreeMap_len(call.hextree)
    /\ \A i \in 1..Len(call.out) :
          HexTreeMap_get(call.hextree, call.out[i].cell) = Some(call.out[i])

C24_OkOnlyAfterRoundTrip ==
    call.fn = "verify_disktree" =>
        /\ call.ret.val.ok => RoundTrip
        /\ ~RoundTrip => IsPanic(call.ret.val)

\* A run on MaxInputs files has written and verified a tree whose seven
\* cells were compacted into one leaf.
C24_Witness ==
    /\ call.fn = "verify_disktree"
    /\ Len(call.input) = MaxInputs
    /\ call.ret.val.ok
    /\ <<>> \in DOMAIN call.hextree

(***************************************************************************)
(* hexit/src/tesselate.rs: Tesselate.                                      *)
(*                                                                         *)
(* disk is the file system: input and output paths to files.  An output    *)
(* file is the items that reached it (the count header and the records),   *)
(* whether its compressed stream was finished, and the number of items of  *)
(* the whole tessellation.  pc, arg, path and result are per worker: its   *)
(* position in _run, its writer, its paths and what _run returned.         *)
(***************************************************************************)
\* Items the BufWriter and the encoder hold before they write to the file.
BufCap == 2

TessOutDir == "out"
TessDirs == {"a", "b"}
TessNames == {"N44W072.hgt", "N45W072.hgt", "readme.txt"}
TessInputs == {[dir |-> d, name |-> n] : d \in TessDirs, n \in TessNames}

\* The cells of the tessellation of an input: hextree.len().
Tessellated(p) ==
    IF p.name = "N44W072.hgt" THEN Ok(1)
    ELSE IF p.name = "N45W072.hgt" THEN Ok(BufCap + 1)
    ELSE HgtLen(0)

\* out_dir.join(format!("{file_name}.res{}.h3tez", resolution)) and the same
\* path with the extension tmp.
out_file_path(out_dir, height_file_path) ==
    [dir |-> out_dir, stem |-> <<height_file_path.name, "res12">>, ext |-> "h3tez"]
set_extension(p, ext) == [p EXCEPT !.ext = ext]

TmpFile(n, w) == [items |-> 0, finished |-> FALSE, of |-> n + 1, by |-> w]
Complete(f) == f.items = f.of /\ f.finished

TessPaths ==
    {out_file_path(TessOutDir, p) : p \in TessInputs}
        \cup {set_extension(out_file_path(TessOutDir, p), "tmp") : p \in TessInputs}

\* The file systems before the run: some outputs of an earlier run exist.
EarlierOutputs ==
    {[p \in TessPaths |-> IF p \in S THEN [items |-> 1, finished |-> TRUE, of |-> 1, by |-> 0]
                          ELSE NoFile] :
        S \in {{}, {out_file_path(TessOutDir, [dir |-> "a", name |-> "N44W072.hgt"])}}}

TessInit(inputs) ==
    /\ tile = NoTile
    /\ tile_mode = "InMem" /\ tiles = <<>> /\ lock = <<>> /\ shardOf = <<>> /\ budget = <<>>
    /\ disk \in EarlierOutputs
    /\ \E overwrite, masked \in BOOLEAN :
          call = [fn |-> "run", overwrite |-> overwrite, masked |-> masked]
    /\ arg \in inputs
    /\ pc = [w \in DOMAIN arg |-> "start"]
    /\ path = [w \in DOMAIN arg |-> None]
    /\ result = [w \in DOMAIN arg |-> None]

TessUnchanged == UNCHANGED <<tile, tile_mode, tiles, lock, shardOf, budget, call>>

\* _run up to the check of the output path.
RunStart(w) ==
    /\ pc[w] = "start"
    /\ LET out == out_file_path(TessOutDir, arg[w])
       IN  IF disk[out] # NoFile /\ ~call.overwrite
           THEN /\ pc' = [pc EXCEPT ![w] = "done"]
                /\ result' = [result EXCEPT ![w] = Some(Ok(<<>>))]
                /\ UNCHANGED path
           ELSE /\ pc' = [pc EXCEPT ![w] = "tesselate"]
                /\ path' = [path EXCEPT ![w] = Some([out |-> out, tmp |-> set_extension(out, "tmp"),
                                                     sent |-> 0, buf |-> 0, n |-> 0])]
                /\ UNCHANGED result
    /\ UNCHANGED <<disk, arg>>
    /\ TessUnchanged

\* Tile::memmap, the mask test and tesselate_tile: a tile the mask does
\* not intersect is left out and _run returns Ok(()).
RunTesselate(w) ==
    /\ pc[w] = "tesselate"
    /\ IF Tessellated(arg[w]).ok
       THEN \/ /\ pc' = [pc EXCEPT ![w] = "create"]
               /\ path' = [path EXCEPT ![w].val.n = Tessellated(arg[w]).val]
               /\ UNCHANGED result
            \/ /\ call.masked
               /\ pc' = [pc EXCEPT ![w] = "done"]
               /\ result' = [result EXCEPT ![w] = Some(Ok(<<>>))]
               /\ UNCHANGED path
       ELSE /\ pc' = [pc EXCEPT ![w] = "done"]
            /\ result' = [result EXCEPT ![w] = Some(Tessellated(arg[w]))]
            /\ UNCHANGED path
    /\ UNCHANGED <<disk, arg>>
    /\ TessUnchanged

\* File::create(&out_file_tmp_path): the file is made, or an I/O error.
RunCreate(w) ==
    /\ pc[w] = "create"
    /\ \/ /\ disk' = [disk EXCEPT ![path[w].val.tmp] = TmpFile(path[w].val.n, w)]
          /\ pc' = [pc EXCEPT ![w] = "write"]
          /\ UNCHANGED result
       \/ /\ pc' = [pc EXCEPT ![w] = "done"]
          /\ result' = [result EXCEPT ![w] = Some(IoError("Other"))]
          /\ UNCHANGED disk
    /\ UNCHANGED <<arg, path>>
    /\ TessUnchanged

\* The buffered items reach the file at the path, if a file is there.
Flushed(fs, p, k) ==
    IF fs[p] = NoFile THEN fs ELSE [fs EXCEPT ![p].items = @ + k]

\* write_to_disk: one write_u64 / write_i16 pair (or the count header) is
\* handed to the writer.  A full buffer is written to the file first, and
\* that write can fail.
RunWrite(w) ==
    /\ pc[w] = "write"
    /\ path[w].val.sent < path[w].val.n + 1
    /\ IF path[w].val.buf < BufCap
       THEN /\ path' = [path EXCEPT ![w].val.sent = @ + 1, ![w].val.buf = @ + 1]
            /\ UNCHANGED <<disk, pc, result>>
       ELSE \/ /\ disk' = Flushed(disk, path[w].val.tmp, path[w].val.buf)
               /\ path' = [path EXCEPT ![w].val.sent = @ + 1, ![w].val.buf = 1]
               /\ UNCHANGED <<pc, result>>
            \/ /\ pc' = [pc EXCEPT ![w] = "drop"]
               /\ result' = [result EXCEPT ![w] = Some(IoError("Other"))]
               /\ UNCHANGED <<disk, path>>
    /\ UNCHANGED arg
    /\ TessUnchanged

\* write_to_disk returns Ok(()) after the last record.
RunWritten(w) ==
    /\ pc[w] = "write"
    /\ path[w].val.sent = path[w].val.n + 1
    /\ pc' = [pc EXCEPT ![w] = "drop"]
    /\ UNCHANGED <<disk, arg, path, result>>
    /\ TessUnchanged

\* The writer goes out of scope at the end of write_to_disk: BufWriter and
\* GzEncoder write what they hold and finish the stream in their Drop, and
\* an error there is discarded.  Then `?` returns the error of
\* write_to_disk, if any.
RunDrop(w) ==
    /\ pc[w] = "drop"
    /\ \/ disk' = [Flushed(disk, path[w].val.tmp, path[w].val.buf) EXCEPT
                      ![path[w].val.tmp] = IF @ = NoFile THEN @ ELSE [@ EXCEPT !.finished = TRUE]]
       \/ disk' = Flushed(disk, path[w].val.tmp, path[w].val.buf)
       \/ disk' = disk
    /\ path' = [path EXCEPT ![w].val.buf = 0]
    /\ pc' = [pc EXCEPT ![w] = IF result[w] = None THEN "rename" ELSE "done"]
    /\ UNCHANGED <<arg, result>>
    /\ TessUnchanged

\* fs::rename(out_file_tmp_path, out_file_path).
RunRename(w) ==
    /\ pc[w] = "rename"
    /\ IF disk[path[w].val.tmp] = NoFile
       THEN /\ result' = [result EXCEPT ![w] = Some(IoError("NotFound"))]
            /\ UNCHANGED disk
       ELSE /\ disk' = [disk EXCEPT ![path[w].val.out] = disk[path[w].val.tmp],
                                    ![path[w].val.tmp] = NoFile]
            /\ result' = [result EXCEPT ![w] = Some(Ok(<<>>))]
    /\ pc' = [pc EXCEPT ![w] = "done"]
    /\ UNCHANGED <<arg, path>>
    /\ TessUnchanged

TessNext ==
    \/ \E w \in DOMAIN pc : RunStart(w)
    \/ \E w \in DOMAIN pc : RunTesselate(w)
    \/ \E w \in DOMAIN pc : RunCreate(w)
    \/ \E w \in DOMAIN pc : RunWrite(w)
    \/ \E w \in DOMAIN pc : RunWritten(w)
    \/ \E w \in DOMAIN pc : RunDrop(w)
    \/ \E w \in DOMAIN pc : RunRename(w)

\* The tessellator for one tile, and the parallel workers of Tesselate::run
\* on a list of pairwise distinct input paths.
OneInput == {<<p>> : p \in TessInputs}
DistinctInputs == {<<p, q>> : p, q \in {r \in TessInputs : r.name # "readme.txt"}} \ {<<p, p>> : p \in TessInputs}

TessOneInit == TessInit(OneInput)
TessParInit == TessInit(DistinctInputs)

SpecTess == TessOneInit /\ [][TessNext]_vars
SpecTessPar == TessParInit /\ [][TessNext]_vars

\* C25: the final .h3tez path never holds a partially written file: what
\* is renamed onto it has its count header and all its records written and
\* its stream finished.
C25_FinalPathNeverPartial ==
    \A p \in TessPaths : (p.ext = "h3tez" /\ disk[p] # NoFile) => Complete(disk[p])

\* C29: for pairwise distinct input paths no two workers use the same
\* temporary path or the same final path.
C29_WorkersUseDistinctPaths ==
    \A v, w \in DOMAIN pc :
        (v # w /\ path[v].some /\ path[w].some) =>
            /\ path[v].val.tmp # path[w].val.tmp
            /\ path[v].val.out # path[w].val.out


\* ---------------------------------------------------------------------
\* The tessellation stream: the bytes Tesselate::write_to_disk writes and
\* the bytes Combine::read_tessellation reads (the gzip layer is lossless
\* and left out).  A u64 is kept as three limbs so that no value leaves
\* the integers of the checker: value = lo + 2^24 * mid + 2^48 * hi.
\* ---------------------------------------------------------------------
MaxRecords == 2

RECURSIVE to_le_bytes(_, _)
to_le_bytes(v, n) ==
    IF n = 0 THEN <<>> ELSE <<v % 256>> \o to_le_bytes(v \div 256, n - 1)

RECURSIVE from_le_bytes(_)
from_le_bytes(bytes) ==
    IF bytes = <<>> THEN 0 ELSE Head(bytes) + 256 * from_le_bytes(Tail(bytes))

\* WriteBytesExt::write_u64::<LE> and write_i16::<LE>.
write_u64(v) == to_le_bytes(v, 8)
write_i16(v) == to_le_bytes((v + 65536) % 65536, 2)

\* ReadBytesExt::read_*::<LE> at position pos of the stream: the value and
\* the position after it, or UnexpectedEof.
Take(bytes, pos, n) == SubSeq(bytes, pos, pos + n - 1)
read_exact(bytes, pos, n, value) ==
    IF pos + n - 1 > Len(bytes) THEN IoError("UnexpectedEof")
    ELSE Ok([value |-> value, pos |-> pos + n])
read_u8(bytes, pos) ==
    read_exact(bytes, pos, 1, IF pos <= Len(bytes) THEN bytes[pos] ELSE 0)
read_u16(bytes, pos) == read_exact(bytes, pos, 2, from_le_bytes(Take(bytes, pos, 2)))
read_i16(bytes, pos) ==
    read_exact(bytes, pos, 2,
               LET u == from_le_bytes(Take(bytes, pos, 2))
               IN  IF u > I16_MAX THEN u - 65536 ELSE u)
read_u64(bytes, pos) ==
    read_exact(bytes, pos, 8,
               [lo |-> from_le_bytes(Take(bytes, pos, 3)),
                mid |-> from_le_bytes(Take(bytes, pos + 3, 3)),
                hi |-> from_le_bytes(Take(bytes, pos + 6, 2))])

\* The raw cells of the model; hextree::Cell::from_raw refuses any other
\* number.
StreamCells == {7, 65536 + 7, 2 * 65536}
StreamElevations == {-1, 0, 300}
Cell_from_raw(raw) ==
    IF raw.mid = 0 /\ raw.hi = 0 /\ raw.lo \in StreamCells THEN Ok(raw.lo)
    ELSE Err("hextree")

\* Tesselate::write_to_disk: the count, then for each (cell, elev) of
\* hextree.iter() the cell and the elevation.
RECURSIVE write_records(_, _)
write_records(records, i) ==
    IF i > Len(records) THEN <<>>
    ELSE write_u64(records[i].cell) \o write_i16(records[i].elev)
            \o write_records(records, i + 1)
write_to_disk(records) == write_u64(Len(records)) \o write_records(records, 1)

\* Combine::read_tessellation on the bytes of one file.  read_cells is
\* the loop over n_cells, read_samples the loop over n_samples; inserted
\* is the list of the (cell, elevation) pairs handed to hextree.insert.
RECURSIVE read_cells(_, _, _, _, _)
read_cells(bytes, pos, left, elevation, inserted) ==
    IF left = 0 THEN Ok([inserted |-> inserted, pos |-> pos])
    ELSE LET raw_cell == read_u64(bytes, pos)
         IN  IF ~raw_cell.ok THEN raw_cell
             ELSE IF ~Cell_from_raw(raw_cell.val.value).ok
                  THEN Cell_from_raw(raw_cell.val.value)
                  ELSE read_cells(bytes, raw_cell.val.pos, left - 1, elevation,
                                  Append(inserted,
                                         [cell |-> Cell_from_raw(raw_cell.val.value).val,
                                          elev |-> elevation]))

read_sample_cells(bytes, elevation, n_cells, inserted) ==
    IF ~n_cells.ok THEN n_cells
    ELSE read_cells(bytes, n_cells.val.pos, n_cells.val.value, elevation, inserted)

read_sample(bytes, elevation, inserted) ==
    IF ~elevation.ok THEN elevation
    ELSE read_sample_cells(bytes, elevation.val.value,
                           read_u16(bytes, elevation.val.pos), inserted)

RECURSIVE read_samples(_, _, _, _)
read_samples_next(bytes, left, r) ==
    IF ~r.ok THEN r ELSE read_samples(bytes, r.val.pos, left - 1, r.val.inserted)
read_samples(bytes, pos, left, inserted) ==
    IF left = 0 THEN Ok([inserted |-> inserted, pos |-> pos])
    ELSE read_samples_next(bytes, left, read_sample(bytes, read_i16(bytes, pos), inserted))

\* More samples than the stream has bytes cannot be read: the loop ends
\* with UnexpectedEof before then.
SampleCount(raw, bytes) ==
    IF raw.mid = 0 /\ raw.hi = 0 /\ raw.lo <= Len(bytes) THEN raw.lo ELSE Len(bytes) + 1

read_stream_end(bytes, r) ==
    IF ~r.ok THEN r
    ELSE IF read_u8(bytes, r.val.pos).ok
         THEN Panic("We should have read all samples out of the file")
         ELSE Ok(r.val.inserted)

read_stream_counted(bytes, n_samples) ==
    IF ~n_samples.ok THEN n_samples
    ELSE read_stream_end(bytes,
                         read_samples(bytes, n_samples.val.pos,
                                      SampleCount(n_samples.val.value, bytes), <<>>))

read_tessellation_stream(bytes) == read_stream_counted(bytes, read_u64(bytes, 1))

\* The hextrees written: up to MaxRecords records of distinct cells in
\* the order of hextree.iter().
StreamRecord == [cell : StreamCells, elev : StreamElevations]
StreamHextrees ==
    {<<>>} \cup {<<a>> : a \in StreamRecord}
           \cup {r \in StreamRecord \X StreamRecord : r[1].cell # r[2].cell}

StreamInit ==
    /\ StoreUnused
    /\ disk = <<>>
    /\ tile = NoTile
    /\ \E h \in StreamHextrees :
          call = [fn |-> "tesselate", hextree |-> h, bytes |-> <<>>, change |-> "none",
                  ret |-> None]

WriteToDisk ==
    /\ call.fn = "tesselate"
    /\ call' = [call EXCEPT !.fn = "write_to_disk", !.bytes = write_to_disk(call.hextree)]
    /\ UNCHANGED <<storeVars, tile>>

\* The file loses its last bytes or gains a byte before it is read.
StreamTruncated ==
    /\ call.fn = "write_to_disk"
    /\ call.change = "none"
    /\ \E k \in 1..2 :
          call' = [call EXCEPT !.bytes = SubSeq(@, 1, Len(@) - k), !.change = "truncated"]
    /\ UNCHANGED <<storeVars, tile>>

StreamExtended ==
    /\ call.fn = "write_to_disk"
    /\ call.change = "none"
    /\ \E b \in {0, 255} : call' = [call EXCEPT !.bytes = Append(@, b), !.change = "extra"]
    /\ UNCHANGED <<storeVars, tile>>

ReadStream ==
    /\ call.fn = "write_to_disk"
    /\ call' = [call EXCEPT !.fn = "read_tessellation",
                            !.ret = Some(read_tessellation_stream(call.bytes))]
    /\ UNCHANGED <<storeVars, tile>>

StreamNext ==
    \/ WriteToDisk
    \/ StreamTruncated
    \/ StreamExtended
    \/ ReadStream

SpecStream == StreamInit /\ [][StreamNext]_vars

\* C26: the reader decodes from the stream the writer produced exactly the
\* (cell, elevation) pairs written, in their order, and ends at end of
\* file; a truncated stream or a stream with extra bytes is not read with
\* success.
C26_ReaderDecodesWrittenStream ==
    call.fn = "read_tessellation" =>
        IF call.change = "none"
        THEN call.ret.val.ok /\ call.ret.val.val = call.hextree
        ELSE ~call.ret.val.ok


\* ---------------------------------------------------------------------
\* Tile::min_elevation and Tile::max_elevation called by several threads
\* on one tile.  The two fields are atomics; a call is the load, the scan
\* of the samples when the load gave i16::MAX, the store, and the return.
\* ---------------------------------------------------------------------
MaxExtremeCalls == 2

ExtremeFns == {"min_elevation", "max_elevation"}

\* The samples of a tile, whatever its store.
TileSamples(t) ==
    CASE t.samples.store = "Tombstone" -> {0}
      [] t.samples.store = "InMem" -> {t.samples.data[i] : i \in DOMAIN t.samples.data}
      [] t.samples.store = "MemMap" ->
            {MappedSamples(t.samples.raw)[i] : i \in 1..(Len(t.samples.raw) \div 2)}

ExtremeTiles ==
    LET sw == [x |-> -72, y |-> 44]
    IN  {Tile_tombstone(sw)} \cup
        UNION {{Tile_load(file_name(sw), File(FileBytes(seed, len \div SIZE_OF_U16), TRUE)).val,
                Tile_memmap(file_name(sw), File(FileBytes(seed, len \div SIZE_OF_U16), TRUE)).val} :
               seed \in Seeds, len \in {RES_1_ARCSECONDS_FIBE_BEN, RES_3_ARCSECONDS_FIBE_BEN}}

ExtremeInit ==
    /\ tile_mode = "InMem" /\ tiles = <<>> /\ lock = <<>> /\ shardOf = <<>>
    /\ disk = <<>>
    /\ call = Idle
    /\ tile \in ExtremeTiles
    /\ pc = [t \in Threads |-> "idle"]
    /\ arg = [t \in Threads |-> "min_elevation"]
    /\ path = [t \in Threads |-> I16_MAX]
    /\ result = [t \in Threads |-> None]
    /\ budget = [t \in Threads |-> MaxExtremeCalls]

ExtremeUnchanged == UNCHANGED <<disk, tile_mode, tiles, lock, shardOf, call>>

\* self.min_elevation.load(Ordering::Relaxed) / self.max_elevation.load(..)
\* and the test against i16::MAX.
ExtremeLoad(t) ==
    /\ pc[t] = "idle"
    /\ budget[t] > 0
    /\ \E fn \in ExtremeFns :
          LET loaded == IF fn = "min_elevation" THEN tile.min_elevation
                        ELSE tile.max_elevation
          IN  /\ arg' = [arg EXCEPT ![t] = fn]
              /\ path' = [path EXCEPT ![t] = loaded]
              /\ pc' = [pc EXCEPT ![t] = IF loaded = I16_MAX THEN "scan" ELSE "return"]
    /\ budget' = [budget EXCEPT ![t] = @ - 1]
    /\ result' = [result EXCEPT ![t] = None]
    /\ UNCHANGED tile
    /\ ExtremeUnchanged

\* self.samples.min() / self.samples.max().
ExtremeScan(t) ==
    /\ pc[t] = "scan"
    /\ path' = [path EXCEPT ![t] = IF arg[t] = "min_elevation"
                                   THEN SampleStore_min(tile.samples)
                                   ELSE SampleStore_max(tile.samples)]
    /\ pc' = [pc EXCEPT ![t] = "store"]
    /\ UNCHANGED <<tile, arg, result, budget>>
    /\ ExtremeUnchanged

\* self.min_elevation.store(min_elevation, Ordering::SeqCst).
ExtremeStore(t) ==
    /\ pc[t] = "store"
    /\ tile' = IF arg[t] = "min_elevation" THEN [tile EXCEPT !.min_elevation = path[t]]
               ELSE [tile EXCEPT !.max_elevation = path[t]]
    /\ pc' = [pc EXCEPT ![t] = "return"]
    /\ UNCHANGED <<arg, path, result, budget>>
    /\ ExtremeUnchanged

ExtremeReturn(t) ==
    /\ pc[t] = "return"
    /\ result' = [result EXCEPT ![t] = Some(path[t])]
    /\ pc' = [pc EXCEPT ![t] = "idle"]
    /\ UNCHANGED <<tile, arg, path, budget>>
    /\ ExtremeUnchanged

ExtremeNext ==
    \/ \E t \in Threads : ExtremeLoad(t)
    \/ \E t \in Threads : ExtremeScan(t)
    \/ \E t \in Threads : ExtremeStore(t)
    \/ \E t \in Threads : ExtremeReturn(t)

SpecExtreme == ExtremeInit /\ [][ExtremeNext]_vars

\* C27: every min_elevation / max_elevation call returns the tile's true
\* extreme, and once a call has returned the cached field holds it.
C27_CallsReturnTrueExtreme ==
    \A t \in Threads :
        result[t].some =>
            IF arg[t] = "min_elevation"
            THEN /\ result[t].val = Least(TileSamples(tile))
                 /\ tile.min_elevation = result[t].val
            ELSE /\ result[t].val = Greatest(TileSamples(tile))
                 /\ tile.max_elevation = result[t].val


\* ---------------------------------------------------------------------
\* The terrain of a profile against the store's own tiles.
\* ---------------------------------------------------------------------
\* store.get(p) then get(p) on the store as build left it: the elevation
\* of the tile the store holds (or loads) for the cell of p.
StoreElevation(p) ==
    LET g == Tiles_get(tiles, disk, tile_mode, p).ret
    IN  IF g.ok THEN Tile_get_point(g.val.tile, p) ELSE None

\* C28: for every walker point p of a profile the elevation recorded for p
\* is the elevation the store's own tile for p returns for p.
C28_TerrainIsStoreElevation ==
    (Built /\ call.kind = "Profile" /\ ~call.b.earth_curve) =>
        \A i \in 1..Len(call.ret.val.great_circle) :
            StoreElevation(call.ret.val.great_circle[i]).some =>
                call.ret.val.terrain[i] = StoreElevation(call.ret.val.great_circle[i]).val


\* ---------------------------------------------------------------------
\* The tile store under fair scheduling.  A thread inside get is
\* scheduled again and again; the shard lock (a parking_lot lock, which
\* hands over to a waiter in the end) is given to a thread that keeps
\* asking for it.  The loads are the terminating disk reads of the model.
\* ---------------------------------------------------------------------
\* The load in progress ends: the step LoadTileFinish(t), told by what it
\* does to pc.
LoadTerminates(t) == pc[t] = "loading" /\ pc' = [pc EXCEPT ![t] = "done"]

StoreFairness ==
    \A t \in Threads :
        /\ SF_vars(EntryOccupied(t) \/ EntryVacant(t))
        /\ WF_vars(LoadTilePath(t))
        /\ WF_pc(LoadTerminates(t))

\* The store is created on a directory that holds N44W072.hgt; the
\* environment changes the directory as in SpecStore.
StoreFairInit ==
    /\ StoreInit
    /\ disk[file_name([x |-> -72, y |-> 44])] = ValidFile
    /\ \A n \in StoreNames \ {file_name([x |-> -72, y |-> 44])} : disk[n] = NoFile

SpecStoreFair == StoreFairInit /\ [][StoreNext]_vars /\ StoreFairness

\* C30: every Tiles::get call returns in the end: a thread that has
\* entered get leaves it, whatever the other threads do.
C30_EveryGetReturns ==
    \A t \in Threads : (pc[t] = "entry") ~> (pc[t] = "done")

\* Thread 2 waits in entry() for the lock of the shard while thread 1 loads
\* a tile under it.
C30_Witness ==
    /\ pc[1] = "loading"
    /\ pc[2] = "entry"
    /\ lock[shardOf[KeyOf(2)]] = 1

====
